---- MODULE Spec2Model ----
(***************************************************************************)
(* Verification model of the backtest repository.                          *)
(*                                                                         *)
(*   - SortedPnlTable  (src/src/sorted_pnl_table.py)                       *)
(*   - Portfolio       (src/src/portfolio.py)                              *)
(*   - MultiFileSimulator (src/multi_file_simulator.py and the variant     *)
(*                         src/src/multi_file_simulator.py)                *)
(*   - ParamOptimizer  (src/param_optimizer.py)                            *)
(*   - AlgoEchappee    (src/src/algo_echappee.py)                          *)
(*   - SingleFileSimulator.run_single_file (src/single_file_simulator.py)  *)
(*                                                                         *)
(* Money and prices are exact integers (the Python code uses floats; the   *)
(* price and quantity domains are chosen so that every quotient the code   *)
(* computes is an integer, hence exact in both arithmetics).               *)
(* Parameter values of the optimizer are integers in thousandths, so that  *)
(* round(x, 2) is a real conversion (to the nearest multiple of 10).       *)
(***************************************************************************)
EXTENDS Integers, Sequences, FiniteSets, TLC

VARIABLES
    \* ---- SortedPnlTable ----
    ticker_map,                 \* ticker -> TickerEntry
    sorted_tickers,             \* last built snapshot (sequence of tickers)
    updates_since_last_sort,
    \* ---- Portfolio ----
    trades,                     \* sequence of trade records
    cash,
    total_pnl,
    \* ---- driver of the table / portfolio calls ----
    now,                        \* timestamp of the latest tick
    lastCall,                   \* the latest call and what it returned
    \* ---- AlgoEchappee and the run of one day file ----
    algo,
    \* ---- MultiFileSimulator.run_all_files ----
    batch,
    \* ---- ParamOptimizer ----
    opt

vars == <<ticker_map, sorted_tickers, updates_since_last_sort,
          trades, cash, total_pnl, now, lastCall, algo, batch, opt>>

tableVars     == <<ticker_map, sorted_tickers, updates_since_last_sort>>
portfolioVars == <<trades, cash, total_pnl>>
dayVars       == <<ticker_map, sorted_tickers, updates_since_last_sort,
                   trades, cash, total_pnl, now, lastCall, algo>>

(***************************************************************************)
(* Bounds of the model and input domains                                   *)
(***************************************************************************)
MaxTicks  == 2          \* ticks replayed in one run
MaxTrades == 2          \* trades ever opened in one run

Tickers    == {"A", "B"}
Prices     == {50, 100}
Quantities == {1, 20000}

RECURSIVE SumSeq(_)
SumSeq(s) == IF s = <<>> THEN 0 ELSE Head(s) + SumSeq(Tail(s))

Max(a, b) == IF a >= b THEN a ELSE b

(***************************************************************************)
(* SortedPnlTable                                                          *)
(***************************************************************************)
\* TickerEntry.__init__
NewTickerEntry(price, ts) ==
    [ first_price |-> price, last_price |-> price,
      first_time  |-> ts,    last_time  |-> ts,
      current_pnl |-> 0,
      highest_pnl_so_far |-> 0, highest_pnl_time |-> ts, highest_pnl_price |-> price,
      max_drawdown |-> 0,
      peak_pnl   |-> 0, peak_price   |-> price, peak_time   |-> ts,
      trough_pnl |-> 0, trough_price |-> price, trough_time |-> ts,
      global_max_pnl |-> 0, global_max_price |-> price, global_max_time |-> ts ]

\* The return taken over the last price instead of the first
MarketPnl_OverLast(first, last) == ((last - first) * 100) \div last

\* (last_price - first_price) / first_price * 100
MarketPnl(first, last) == ((last - first) * 100) \div first

\* TickerEntry.update raises ZeroDivisionError when first_price is 0
UpdateRaises(e) == e.first_price = 0

\* What the entry holds when update raised: the two assignments before the
\* division have been made.
EntryAfterRaise(e, price, ts) ==
    [e EXCEPT !.last_price = price, !.last_time = ts]

\* TickerEntry.update recording the drawdown of every update, not only a
\* drawdown lower than the recorded one
EntryUpdate_LastDrawdown(e, price, ts) ==
    LET pnl == MarketPnl(e.first_price, price)
        e1  == [e EXCEPT !.last_price = price, !.last_time = ts, !.current_pnl = pnl]
        e2  == IF pnl > e1.global_max_pnl
               THEN [e1 EXCEPT !.global_max_pnl = pnl,
                               !.global_max_price = price,
                               !.global_max_time = ts]
               ELSE e1
        e3  == IF pnl > e2.highest_pnl_so_far
               THEN [e2 EXCEPT !.highest_pnl_so_far = pnl,
                               !.highest_pnl_price = price,
                               !.highest_pnl_time = ts]
               ELSE e2
    IN  [e3 EXCEPT !.max_drawdown = pnl - e3.highest_pnl_so_far,
                   !.peak_pnl   = e3.highest_pnl_so_far,
                   !.peak_price = e3.highest_pnl_price,
                   !.peak_time  = e3.highest_pnl_time,
                   !.trough_pnl = pnl,
                   !.trough_price = price,
                   !.trough_time  = ts]

\* TickerEntry.update with `>=` in the test of the global maximum
EntryUpdate_MaxOnTie(e, price, ts) ==
    LET pnl == MarketPnl(e.first_price, price)
        e1  == [e EXCEPT !.last_price = price, !.last_time = ts, !.current_pnl = pnl]
    IN  IF pnl >= e1.global_max_pnl
        THEN [e1 EXCEPT !.global_max_pnl = pnl,
                        !.global_max_price = price,
                        !.global_max_time = ts]
        ELSE e1

\* TickerEntry.update, no exception
EntryUpdate(e, price, ts) ==
    LET pnl == MarketPnl(e.first_price, price)
        e1  == [e EXCEPT !.last_price = price, !.last_time = ts, !.current_pnl = pnl]
        e2  == IF pnl > e1.global_max_pnl
               THEN [e1 EXCEPT !.global_max_pnl = pnl,
                               !.global_max_price = price,
                               !.global_max_time = ts]
               ELSE e1
        e3  == IF pnl > e2.highest_pnl_so_far
               THEN [e2 EXCEPT !.highest_pnl_so_far = pnl,
                               !.highest_pnl_price = price,
                               !.highest_pnl_time = ts]
               ELSE e2
        drawdown == pnl - e3.highest_pnl_so_far
    IN  IF drawdown < e3.max_drawdown
        THEN [e3 EXCEPT !.max_drawdown = drawdown,
                        !.peak_pnl   = e3.highest_pnl_so_far,
                        !.peak_price = e3.highest_pnl_price,
                        !.peak_time  = e3.highest_pnl_time,
                        !.trough_pnl = pnl,
                        !.trough_price = price,
                        !.trough_time  = ts]
        ELSE e3

\* SortedPnlTable.get_last_price: None is modelled by the guard HasPrice
HasPrice(tm, ticker) == ticker \in DOMAIN tm
get_last_price(tm, ticker) == tm[ticker].last_price

\* Is a before b in sorted(ticker_map.items(), key=pnl, reverse=True)?  The
\* sort is stable: ties keep the insertion order of the dict, which is the
\* order of the first ticks.
Before(tm, a, b) ==
    \/ tm[a].current_pnl > tm[b].current_pnl
    \/ /\ tm[a].current_pnl = tm[b].current_pnl
       /\ tm[a].first_time < tm[b].first_time

\* resort sorting in ascending order: what a missing reverse=True would do
resort_Ascending(tm) ==
    [i \in 1..Cardinality(DOMAIN tm) |->
        CHOOSE t \in DOMAIN tm :
            Cardinality({u \in DOMAIN tm : Before(tm, t, u)}) = i - 1]

\* SortedPnlTable.resort: the new sorted_tickers (the entries are references,
\* so only the order is a snapshot)
resort(tm) ==
    [i \in 1..Cardinality(DOMAIN tm) |->
        CHOOSE t \in DOMAIN tm :
            Cardinality({u \in DOMAIN tm : Before(tm, u, t)}) = i - 1]

\* has_been_resorted with the test `>` in place of `>=`
has_been_resorted_Strict(tm, sorted, updates, threshold) ==
    IF updates > threshold
    THEN [ret |-> TRUE, sorted_tickers |-> resort(tm), updates_since_last_sort |-> 0]
    ELSE [ret |-> FALSE, sorted_tickers |-> sorted, updates_since_last_sort |-> updates]

\* SortedPnlTable.has_been_resorted(threshold) on a table with the entries
\* tm, the snapshot sorted and the counter updates: what it returns and what
\* it leaves in the table
has_been_resorted(tm, sorted, updates, threshold) ==
    IF updates >= threshold
    THEN [ret |-> TRUE, sorted_tickers |-> resort(tm), updates_since_last_sort |-> 0]
    ELSE [ret |-> FALSE, sorted_tickers |-> sorted, updates_since_last_sort |-> updates]

(***************************************************************************)
(* Portfolio                                                               *)
(***************************************************************************)
InitialCash == 1000000

IsOpen(t) == t.status = "open"

OpenIdx(ts) == {i \in 1..Len(ts) : IsOpen(ts[i])}

\* refresh_prices without the test of the status: closed trades are
\* re-priced too.
RefreshTrade_AnyStatus(t, tm) ==
    IF HasPrice(tm, t.ticker)
    THEN LET lp  == get_last_price(tm, t.ticker)
             upl == (lp - t.entry_price) * t.quantity
         IN  [t EXCEPT !.last_price = lp,
                       !.unrealized_pnl = upl,
                       !.unrealized_pnl_max = Max(t.unrealized_pnl_max, upl)]
    ELSE t

\* refresh_prices: the loop body for one trade
RefreshTrade(t, tm) ==
    IF IsOpen(t) /\ HasPrice(tm, t.ticker)
    THEN LET lp  == get_last_price(tm, t.ticker)
             upl == (lp - t.entry_price) * t.quantity
         IN  [t EXCEPT !.last_price = lp,
                       !.unrealized_pnl = upl,
                       !.unrealized_pnl_max = Max(t.unrealized_pnl_max, upl)]
    ELSE t

refresh_prices(ts, tm) == [i \in 1..Len(ts) |-> RefreshTrade(ts[i], tm)]

\* open_trade: the trade record it appends
NewTrade(ticker, quantity, last_price, ts) ==
    [ ticker |-> ticker, quantity |-> quantity,
      entry_price |-> last_price, entry_time |-> ts,
      last_price |-> last_price,
      unrealized_pnl |-> 0, unrealized_pnl_max |-> 0,
      status |-> "open",
      invested_amount |-> last_price * quantity ]

\* open_trade without the funds check: what a missing `cost > self.cash` test
\* would do.
open_trade_NoFundsCheck(p, tm, ticker, quantity, ts) ==
    IF ~ HasPrice(tm, ticker)
    THEN [trades |-> p.trades, cash |-> p.cash, total_pnl |-> p.total_pnl, ret |-> FALSE]
    ELSE LET lp == get_last_price(tm, ticker)
         IN  [trades |-> Append(p.trades, NewTrade(ticker, quantity, lp, ts)),
              cash |-> p.cash - lp * quantity,
              total_pnl |-> p.total_pnl, ret |-> TRUE]

\* open_trade with the funds check on the price of one share instead of the
\* cost of the order
open_trade_FundsPerShare(p, tm, ticker, quantity, ts) ==
    IF ~ HasPrice(tm, ticker)
    THEN [trades |-> p.trades, cash |-> p.cash, total_pnl |-> p.total_pnl, ret |-> FALSE]
    ELSE LET lp   == get_last_price(tm, ticker)
             cost == lp * quantity
         IN  IF lp > p.cash
             THEN [trades |-> p.trades, cash |-> p.cash,
                   total_pnl |-> p.total_pnl, ret |-> FALSE]
             ELSE [trades |-> Append(p.trades, NewTrade(ticker, quantity, lp, ts)),
                   cash |-> p.cash - cost,
                   total_pnl |-> p.total_pnl, ret |-> TRUE]

\* open_trade: the ledger after the call and the value returned
open_trade(p, tm, ticker, quantity, ts) ==
    IF ~ HasPrice(tm, ticker)
    THEN [trades |-> p.trades, cash |-> p.cash, total_pnl |-> p.total_pnl, ret |-> FALSE]
    ELSE LET lp   == get_last_price(tm, ticker)
             cost == lp * quantity
         IN  IF cost > p.cash
             THEN [trades |-> p.trades, cash |-> p.cash,
                   total_pnl |-> p.total_pnl, ret |-> FALSE]
             ELSE [trades |-> Append(p.trades, NewTrade(ticker, quantity, lp, ts)),
                   cash |-> p.cash - cost,
                   total_pnl |-> p.total_pnl, ret |-> TRUE]

\* The loop body of close_position without the test of the status: a trade
\* already closed is closed again.
CloseTrade_AnyStatus(t, ticker, last_price, ts, tm) ==
    IF t.ticker = ticker
    THEN [ exit_price     |-> last_price,
           exit_time      |-> ts,
           realized_pnl   |-> (last_price - t.entry_price) * t.quantity,
           market_pnl_max |-> IF ticker \in DOMAIN tm
                              THEN tm[ticker].global_max_pnl ELSE 0,
           status         |-> "closed" ] @@ t
    ELSE t

\* close_position: the loop body for one trade
CloseTrade(t, ticker, last_price, ts, tm) ==
    IF t.ticker = ticker /\ IsOpen(t)
    THEN [ exit_price     |-> last_price,
           exit_time      |-> ts,
           realized_pnl   |-> (last_price - t.entry_price) * t.quantity,
           market_pnl_max |-> IF ticker \in DOMAIN tm
                              THEN tm[ticker].global_max_pnl ELSE 0,
           status         |-> "closed" ] @@ t
    ELSE t

\* The trades close_position(ticker, ...) closes
Hit(ts, ticker) == {i \in OpenIdx(ts) : ts[i].ticker = ticker}

\* close_position crediting only the realized pnl to the cash instead of the
\* proceeds of the sale.
close_position_CreditsPnl(p, ticker, last_price, ts, tm) ==
    LET hit == Hit(p.trades, ticker)
        pnl == SumSeq([i \in 1..Len(p.trades) |->
                         IF i \in hit
                         THEN (last_price - p.trades[i].entry_price) * p.trades[i].quantity
                         ELSE 0])
    IN  [ trades    |-> [i \in 1..Len(p.trades) |->
                           CloseTrade(p.trades[i], ticker, last_price, ts, tm)],
          cash      |-> p.cash + pnl,
          total_pnl |-> p.total_pnl + pnl,
          closed_any |-> hit # {} ]

\* close_position on the whole ledger: the ledger after the call, and
\* closed_any, the value returned
close_position(p, ticker, last_price, ts, tm) ==
    LET hit == Hit(p.trades, ticker)
        qty == SumSeq([i \in 1..Len(p.trades) |->
                         IF i \in hit THEN p.trades[i].quantity ELSE 0])
        pnl == SumSeq([i \in 1..Len(p.trades) |->
                         IF i \in hit
                         THEN (last_price - p.trades[i].entry_price) * p.trades[i].quantity
                         ELSE 0])
    IN  [ trades    |-> [i \in 1..Len(p.trades) |->
                           CloseTrade(p.trades[i], ticker, last_price, ts, tm)],
          cash      |-> p.cash + last_price * qty,
          total_pnl |-> p.total_pnl + pnl,
          closed_any |-> hit # {} ]

\* close_all: walks the trades in order; every trade still open whose ticker
\* has a price triggers close_position for that ticker.
RECURSIVE CloseAllFrom(_, _, _, _)
CloseAllFrom(p, i, ts, tm) ==
    IF i > Len(p.trades) THEN p
    ELSE LET t == p.trades[i]
         IN  IF IsOpen(t) /\ HasPrice(tm, t.ticker)
             THEN CloseAllFrom(close_position(p, t.ticker,
                                              get_last_price(tm, t.ticker), ts, tm),
                               i + 1, ts, tm)
             ELSE CloseAllFrom(p, i + 1, ts, tm)

\* close_all that stops after the first position it closes
close_all_FirstOnly(p, ts, tm) ==
    LET open == {i \in OpenIdx(p.trades) : HasPrice(tm, p.trades[i].ticker)}
    IN  IF open = {} THEN p
        ELSE LET i == CHOOSE k \in open : \A j \in open : k <= j
                 t == p.trades[i]
             IN  close_position(p, t.ticker, get_last_price(tm, t.ticker), ts, tm)

close_all(p, ts, tm) == CloseAllFrom(p, 1, ts, tm)

Ledger == [trades |-> trades, cash |-> cash, total_pnl |-> total_pnl,
           closed_any |-> FALSE]

(***************************************************************************)
(* Calls on the table and the ledger, in any order                         *)
(***************************************************************************)
\* The latest call: its name, its ticker and quantity arguments (open_trade),
\* what it returned, and for close_all the number of trades open before it.
Call(op, ticker, ret, n) == [op |-> op, ticker |-> ticker, ret |-> ret, n |-> n]

NoCall == Call("none", "", FALSE, 0)

BatchIdle == [pc |-> "off"]
OptIdle   == [pc |-> "off"]
AlgoIdle  == [pc |-> "off"]

InitDay ==
    /\ ticker_map = <<>>
    /\ sorted_tickers = <<>>
    /\ updates_since_last_sort = 0
    /\ trades = <<>>
    /\ cash = InitialCash
    /\ total_pnl = 0
    /\ now = 0
    /\ lastCall = NoCall
    /\ algo = AlgoIdle

\* SortedPnlTable.update_ticker(ticker, price, timestamp); the tick advances
\* the clock.  When TickerEntry.update raises, the counter is not incremented.
UpdateTicker(ticker, price) ==
    /\ now < MaxTicks
    /\ now' = now + 1
    /\ IF ticker \notin DOMAIN ticker_map
       THEN /\ ticker_map' = (ticker :> NewTickerEntry(price, now + 1)) @@ ticker_map
            /\ updates_since_last_sort' = updates_since_last_sort + 1
            /\ lastCall' = Call("update_ticker", "", TRUE, 0)
       ELSE IF UpdateRaises(ticker_map[ticker])
       THEN /\ ticker_map' = [ticker_map EXCEPT
                                ![ticker] = EntryAfterRaise(@, price, now + 1)]
            /\ UNCHANGED updates_since_last_sort
            /\ lastCall' = Call("update_ticker", "", FALSE, 0)
       ELSE /\ ticker_map' = [ticker_map EXCEPT
                                ![ticker] = EntryUpdate(@, price, now + 1)]
            /\ updates_since_last_sort' = updates_since_last_sort + 1
            /\ lastCall' = Call("update_ticker", "", TRUE, 0)
    /\ UNCHANGED <<sorted_tickers, trades, cash, total_pnl, algo, batch, opt>>

\* Portfolio.refresh_prices(table)
RefreshPrices ==
    /\ trades' = refresh_prices(trades, ticker_map)
    /\ lastCall' = Call("refresh_prices", "", TRUE, 0)
    /\ UNCHANGED <<tableVars, cash, total_pnl, now, algo, batch, opt>>

\* Portfolio.open_trade(ticker, quantity, table, timestamp)
OpenTrade(ticker, quantity) ==
    LET r == open_trade(Ledger, ticker_map, ticker, quantity, now)
    IN  /\ Len(trades) < MaxTrades
        /\ trades' = r.trades
        /\ cash' = r.cash
        /\ total_pnl' = r.total_pnl
        /\ lastCall' = Call("open_trade", ticker, r.ret, quantity)
        /\ UNCHANGED <<tableVars, now, algo, batch, opt>>

\* Portfolio.close_position(ticker, last_price, timestamp, table)
ClosePosition(ticker, last_price) ==
    LET r == close_position(Ledger, ticker, last_price, now, ticker_map)
    IN  /\ trades' = r.trades
        /\ cash' = r.cash
        /\ total_pnl' = r.total_pnl
        /\ lastCall' = Call("close_position", "", r.closed_any, 0)
        /\ UNCHANGED <<tableVars, now, algo, batch, opt>>

\* Portfolio.close_all(table, timestamp)
CloseAll ==
    LET r == close_all(Ledger, now, ticker_map)
    IN  /\ trades' = r.trades
        /\ cash' = r.cash
        /\ total_pnl' = r.total_pnl
        /\ lastCall' = Call("close_all", "", TRUE, Cardinality(OpenIdx(trades)))
        /\ UNCHANGED <<tableVars, now, algo, batch, opt>>

InitPortfolio ==
    /\ InitDay
    /\ batch = BatchIdle
    /\ opt = OptIdle

NextPortfolio ==
    \/ \E t \in Tickers, p \in Prices : UpdateTicker(t, p)
    \/ RefreshPrices
    \/ \E t \in Tickers, q \in Quantities : OpenTrade(t, q)
    \/ \E t \in DOMAIN ticker_map :
           ClosePosition(t, get_last_price(ticker_map, t))
    \/ CloseAll

SpecPortfolio == InitPortfolio /\ [][NextPortfolio]_vars

(***************************************************************************)
(* MultiFileSimulator.run_all_files                                        *)
(*                                                                         *)
(* batch.impl says which of the two classes of the repository runs:        *)
(*   "root"  src/multi_file_simulator.py      (multiprocessing.Pool)       *)
(*   "src"   src/src/multi_file_simulator.py  (ProcessPoolExecutor, with   *)
(*           the try/except of _simulate_single_file)                      *)
(* A day file is described by what SingleFileSimulator.run_single_file     *)
(* does on it: "ok" (returns the day's metrics), "missing" (the file does  *)
(* not exist: returns zeros) or "raises" (the file exists and reading it,  *)
(* refresh_prices or the strategy raises: none of them is inside the try   *)
(* of run_single_file).                                                    *)
(***************************************************************************)
NumDays    == 5         \* day files of the batch
NumWorkers == 2         \* processes of the pool

Days == 1..NumDays

DayFiles ==
    { [file |-> "ok",      file_pnl |-> 7,  file_invested_capital |-> 100, num_traded |-> 1],
      [file |-> "ok",      file_pnl |-> -5, file_invested_capital |-> 200, num_traded |-> 2],
      [file |-> "missing", file_pnl |-> 0,  file_invested_capital |-> 0,   num_traded |-> 0],
      [file |-> "raises",  file_pnl |-> 0,  file_invested_capital |-> 0,   num_traded |-> 0] }

\* run_single_file raises on this day file
RunRaises(day) == day.file = "raises"

\* the dictionary run_single_file returns (the zeros of its first return for a
\* missing file)
RunSingleFile(day) ==
    [file_pnl |-> day.file_pnl,
     file_invested_capital |-> day.file_invested_capital,
     num_traded |-> day.num_traded]

\* _simulate_single_file of the src/src variant: an exception becomes a result
SimulateSingleFile(day) ==
    IF RunRaises(day)
    THEN [file_pnl |-> 0, num_traded |-> 0]
    ELSE RunSingleFile(day)

\* Pool.starmap cuts the tasks into chunks of
\* ceil(len(tasks) / (4 * processes)); executor.map submits one task per day.
ChunkSize(impl, workers) ==
    IF impl = "src" THEN 1
    ELSE LET q == NumDays \div (workers * 4)
             r == NumDays % (workers * 4)
         IN  IF r # 0 THEN q + 1 ELSE q

NumChunks(impl, workers) ==
    LET c == ChunkSize(impl, workers)
    IN  (NumDays + c - 1) \div c

ChunkDays(impl, workers, k) ==
    LET c == ChunkSize(impl, workers)
    IN  {d \in Days : (k - 1) * c < d /\ d <= k * c}

\* One worker's run of a chunk (mapstar): the results of its days in order, or
\* failure at the first day that raises.
ChunkFails(b, k) ==
    /\ b.impl = "root"
    /\ \E d \in ChunkDays(b.impl, b.workers, k) : RunRaises(b.data_files[d])

ChunkResults(b, k) ==
    [d \in ChunkDays(b.impl, b.workers, k) |->
        IF b.impl = "src" THEN SimulateSingleFile(b.data_files[d])
        ELSE RunSingleFile(b.data_files[d])]

\* population variance of the list times the square of its length; np.std is
\* the square root of it divided by the length (0.0 for fewer than 2 days)
StdScaled(l) ==
    IF Len(l) > 1
    THEN Len(l) * SumSeq([i \in 1..Len(l) |-> l[i] * l[i]]) - SumSeq(l) * SumSeq(l)
    ELSE 0

\* a quotient a / b * 100 kept as the pair of its terms; inf when b = 0
Ratio(a, b) == IF b # 0 THEN <<a * 100, b>> ELSE <<"inf">>

\* the day counts of the aggregation loops
CountNonNeg(l) == Cardinality({i \in 1..Len(l) : l[i] >= 0})
CountNeg(l)    == Cardinality({i \in 1..Len(l) : l[i] < 0})
CountPos(l)    == Cardinality({i \in 1..Len(l) : l[i] > 0})

\* _compute_drawdown: largest drop of the cumulated pnl below its running peak
RECURSIVE DrawdownFrom(_, _, _, _, _)
DrawdownFrom(l, i, total, peak, max_dd) ==
    IF i > Len(l) THEN max_dd
    ELSE LET value == total + l[i]
             pk    == IF i = 1 \/ value > peak THEN value ELSE peak
             dd    == pk - value
         IN  DrawdownFrom(l, i + 1, value, pk, IF dd > max_dd THEN dd ELSE max_dd)

\* _compute_drawdown with the peak starting at 0, the equity before the first
\* day, instead of equity[0]
compute_drawdown_FromZero(l) == DrawdownFrom(<<0>> \o l, 1, 0, 0, 0)

compute_drawdown(l) == DrawdownFrom(l, 1, 0, 0, 0)

\* the aggregate returned for the list of the days' results, in list order
AggregateRoot(results) ==
    LET daily_pnls == [i \in 1..Len(results) |-> results[i].file_pnl]
        invested   == SumSeq([i \in 1..Len(results) |-> results[i].file_invested_capital])
    IN  [ total_pnl |-> SumSeq(daily_pnls),
          total_invested_capital |-> invested,
          total_roi |-> Ratio(SumSeq(daily_pnls), invested),
          daily_pnl_std |-> StdScaled(daily_pnls),
          positive_or_zero_pnl_days |-> CountNonNeg(daily_pnls),
          negative_pnl_days |-> CountNeg(daily_pnls) ]

AggregateSrc(results) ==
    LET daily_pnls   == [i \in 1..Len(results) |-> results[i].file_pnl]
        total_trades == SumSeq([i \in 1..Len(results) |-> results[i].num_traded])
    IN  [ total_pnl |-> SumSeq(daily_pnls),
          total_trades |-> total_trades,
          roi |-> IF total_trades > 0 THEN <<SumSeq(daily_pnls), total_trades>> ELSE <<0, 1>>,
          win_rate |-> IF Len(daily_pnls) > 0
                       THEN <<CountPos(daily_pnls) * 100, Len(daily_pnls)>>
                       ELSE <<0, 1>>,
          drawdown |-> compute_drawdown(daily_pnls) ]

Aggregate(impl, results) ==
    IF impl = "root" THEN AggregateRoot(results) ELSE AggregateSrc(results)

\* The list the pool hands back: each chunk's results at the chunk's place
\* (MapResult._set stores by index), whatever the order of completion.
RECURSIVE Concat(_, _, _)
Concat(done, k, n) ==
    IF k > n THEN <<>>
    ELSE LET c == done[k]
             lo == CHOOSE d \in DOMAIN c : \A e \in DOMAIN c : d <= e
             hi == CHOOSE d \in DOMAIN c : \A e \in DOMAIN c : d >= e
         IN  [i \in 1..(hi - lo + 1) |-> c[lo + i - 1]] \o Concat(done, k + 1, n)

\* the results in the order in which the chunks completed
RECURSIVE ConcatArrival(_, _)
ConcatArrival(done, order) ==
    IF order = <<>> THEN <<>>
    ELSE LET c == done[Head(order)]
             lo == CHOOSE d \in DOMAIN c : \A e \in DOMAIN c : d <= e
             hi == CHOOSE d \in DOMAIN c : \A e \in DOMAIN c : d >= e
         IN  [i \in 1..(hi - lo + 1) |-> c[lo + i - 1]] \o ConcatArrival(done, Tail(order))

\* results handed back in completion order (imap_unordered instead of starmap)
PoolResults_Unordered(b) == ConcatArrival(b.done, b.arrived)

PoolResults(b) == Concat(b.done, 1, NumChunks(b.impl, b.workers))

InitBatch ==
    /\ InitDay
    /\ opt = OptIdle
    /\ \E impl \in {"root", "src"}, parallel \in BOOLEAN,
          workers \in 1..NumWorkers, files \in [Days -> DayFiles] :
          batch = [ pc |-> "called",
                    impl |-> impl, parallel |-> parallel, workers |-> workers,
                    data_files |-> files,
                    running |-> {},                        \* chunks the workers run
                    next    |-> 1,                         \* next chunk of the queue
                    done    |-> <<>>,                      \* chunk -> its results
                    failed  |-> {},                        \* chunks that raised
                    arrived |-> <<>>,                      \* chunks in completion order
                    i       |-> 1,                         \* sequential loop index
                    results |-> <<>>,
                    ret     |-> <<>> ]

\* an idle pool worker takes the next chunk of the task queue
PoolTake ==
    /\ batch.pc = "called" /\ batch.parallel
    /\ Cardinality(batch.running) < batch.workers
    /\ batch.next <= NumChunks(batch.impl, batch.workers)
    /\ batch' = [batch EXCEPT !.running = @ \cup {batch.next}, !.next = batch.next + 1]
    /\ UNCHANGED dayVars /\ UNCHANGED opt

\* the worker that runs chunk k finishes it and sends its outcome back
PoolFinish(k) ==
    /\ batch.pc = "called" /\ batch.parallel
    /\ k \in batch.running
    /\ batch' = [batch EXCEPT
                    !.running = @ \ {k},
                    !.arrived = Append(@, k),
                    !.failed = IF ChunkFails(batch, k) THEN @ \cup {k} ELSE @,
                    !.done = (k :> ChunkResults(batch, k)) @@ @]
    /\ UNCHANGED dayVars /\ UNCHANGED opt

AllChunksArrived(b) == Len(b.arrived) = NumChunks(b.impl, b.workers)

\* starmap / list(executor.map) returns once every chunk has completed: it
\* raises if a chunk raised, and hands back the list of results otherwise;
\* run_all_files then aggregates and returns.
PoolJoin ==
    /\ batch.pc = "called" /\ batch.parallel
    /\ AllChunksArrived(batch)
    /\ IF batch.failed # {}
       THEN batch' = [batch EXCEPT !.pc = "raised"]
       ELSE LET results == PoolResults(batch)
            IN  batch' = [batch EXCEPT !.pc = "returned",
                                       !.results = results,
                                       !.ret = Aggregate(batch.impl, results)]
    /\ UNCHANGED dayVars /\ UNCHANGED opt

\* sequential mode: one day of the for loop
SeqDay ==
    /\ batch.pc = "called" /\ ~ batch.parallel
    /\ batch.i <= NumDays
    /\ LET day == batch.data_files[batch.i]
       IN  IF batch.impl = "root" /\ RunRaises(day)
           THEN batch' = [batch EXCEPT !.pc = "raised"]
           ELSE batch' = [batch EXCEPT
                            !.i = @ + 1,
                            !.results = Append(@, IF batch.impl = "src"
                                                  THEN SimulateSingleFile(day)
                                                  ELSE RunSingleFile(day))]
    /\ UNCHANGED dayVars /\ UNCHANGED opt

\* sequential mode: the loop is over, run_all_files returns the aggregate
SeqReturn ==
    /\ batch.pc = "called" /\ ~ batch.parallel
    /\ batch.i > NumDays
    /\ batch' = [batch EXCEPT !.pc = "returned",
                              !.ret = Aggregate(batch.impl, batch.results)]
    /\ UNCHANGED dayVars /\ UNCHANGED opt

NextBatch ==
    \/ PoolTake
    \/ \E k \in 1..NumDays : PoolFinish(k)
    \/ PoolJoin
    \/ SeqDay
    \/ SeqReturn

SpecBatch == InitBatch /\ [][NextBatch]_vars

(***************************************************************************)
(* ParamOptimizer (src/param_optimizer.py)                                 *)
(*                                                                         *)
(* A parameter value is a record [t, v]: t is its Python type ("int" or    *)
(* "float") and v its value in thousandths.  A configuration is a Python   *)
(* dict: the sequence of its <<name, value>> items in insertion order.     *)
(* The simulator behind _test_params is an objective: a function of the    *)
(* numeric values of the configuration, fixed for the run.                 *)
(***************************************************************************)
MaxTests      == 2      \* largest max_tests_per_param of a run
MaxIterations == 2      \* largest max_iterations of a run
MaxCalls      == 2      \* direct calls of _test_params

NegInf == -1000000      \* float('-inf')
PosInf == 1000000       \* float('inf')
TopN   == 10            \* _save_best(top_n=10)

\* None, for a configuration (a configuration of the program is never empty)
None == <<>>

PyInt(v)   == [t |-> "int",   v |-> v]
PyFloat(v) == [t |-> "float", v |-> v]

\* float(x)
ToFloat(x) == PyFloat(x.v)

\* round(x, 2) of a float given in thousandths: the nearest multiple of 10
\* thousandths (an exact tie goes to the even hundredth)
Round2(v) ==
    LET q == v \div 10
        r == v % 10
    IN  IF r < 5 THEN q * 10
        ELSE IF r > 5 THEN (q + 1) * 10
        ELSE IF q % 2 = 0 THEN q * 10 ELSE (q + 1) * 10

\* the text json.dumps and str write for a number: an int has no decimal
\* point, a float always has one (1 -> "1", 1.0 -> "1.0")
NumberText(x) == [digits |-> x.v, point |-> (x.t = "float")]

\* int(text) if it parses, else float(text)
ParseNumber(text) == IF text.point THEN PyFloat(text.digits) ELSE PyInt(text.digits)

\* params.json: the settings of the parameters in file order (two of
\* DEFAULT_PARAMS); initial_value is chosen by the run
ParamNames == <<"stop_echappee_threshold", "start_echappee_threshold">>

Settings(name) ==
    IF name = "stop_echappee_threshold"
    THEN [min_value |-> PyInt(1000), max_value |-> PyInt(3000), step |-> PyFloat(500), priority |-> 8]
    ELSE [min_value |-> PyFloat(1000), max_value |-> PyFloat(3000), step |-> PyFloat(500), priority |-> 9]

\* position of a parameter name in the lexicographic order of the names
NameRank(name) == IF name = "start_echappee_threshold" THEN 1 ELSE 2

\* dict operations
Names(config) == {config[i][1] : i \in 1..Len(config)}

Get(config, name) ==
    LET i == CHOOSE i \in 1..Len(config) : config[i][1] = name
    IN  config[i][2]

Set(config, name, value) ==
    IF name \in Names(config)
    THEN [i \in 1..Len(config) |->
            IF config[i][1] = name THEN <<name, value>> ELSE config[i]]
    ELSE Append(config, <<name, value>>)

\* _config_to_key without sort_keys: the items in insertion order
config_to_key_Unsorted(config) ==
    [i \in 1..Len(config) |-> <<config[i][1], NumberText(config[i][2])>>]

\* json.dumps(config, sort_keys=True): the items in the order of their names,
\* each value as its text
config_to_key(config) ==
    LET n == Len(config)
        at(i) == CHOOSE j \in 1..n :
                    Cardinality({k \in 1..n :
                        NameRank(config[k][1]) < NameRank(config[j][1])}) = i - 1
    IN  [i \in 1..n |-> <<config[at(i)][1], NumberText(config[at(i)][2])>>]

\* the objective: total_pnl of run_all_files as a function of the numeric
\* values of the two parameters; flat, or a peak at (stop, start)
Grid == {1000, 1500, 2000, 2500, 3000}

Objectives ==
    {[kind |-> "flat", stop |-> 0, start |-> 0]} \cup
    {[kind |-> "peak", stop |-> a, start |-> b] : a \in Grid, b \in {1500, 2500}}

Abs(x) == IF x < 0 THEN -x ELSE x

run_all_files(objective, param_values) ==
    IF objective.kind = "flat" THEN 0
    ELSE 30 - (Abs(Get(param_values, "stop_echappee_threshold").v - objective.stop)
               + Abs(Get(param_values, "start_echappee_threshold").v - objective.start)) \div 50

\* _test_params without the look-up: every call runs the simulation and stores
\* its pnl
test_params_NoCache(o, param_values) ==
    LET config_key == config_to_key(param_values)
        pnl == run_all_files(o.objective, param_values)
    IN  [o |-> [o EXCEPT !.config_cache = (config_key :> pnl) @@ @,
                         !.simulated = Append(@, param_values)],
         pnl |-> pnl, hit |-> FALSE]

\* _test_params: the pnl of the cache on a hit, else a simulation whose pnl
\* enters the cache; simulated is the history of the calls of run_all_files
test_params(o, param_values) ==
    LET config_key == config_to_key(param_values)
    IN  IF config_key \in DOMAIN o.config_cache
        THEN [o |-> o, pnl |-> o.config_cache[config_key], hit |-> TRUE]
        ELSE LET pnl == run_all_files(o.objective, param_values)
             IN  [o |-> [o EXCEPT !.config_cache = (config_key :> pnl) @@ @,
                                  !.simulated = Append(@, param_values)],
                  pnl |-> pnl, hit |-> FALSE]

\* the line csv.DictWriter writes for a row
CsvRow(pnl, config) ==
    [pnl |-> pnl,
     fields |-> [i \in 1..Len(config) |-> <<config[i][1], NumberText(config[i][2])>>]]

\* the config _load_cache_from_csv reads back from a line
CsvConfig(row) ==
    [i \in 1..Len(row.fields) |-> <<row.fields[i][1], ParseNumber(row.fields[i][2])>>]

\* _write_result: nothing if the key of the row is in the cache, else the row
\* is appended to results.csv
write_result(o, pnl, config) ==
    IF config_to_key(config) \in DOMAIN o.config_cache
    THEN o
    ELSE [o EXCEPT !.results_file = Append(@, CsvRow(pnl, config))]

\* _load_cache_from_csv
RECURSIVE load_cache_from_csv(_, _)
load_cache_from_csv(o, i) ==
    IF i > Len(o.results_file) THEN o
    ELSE LET row == o.results_file[i]
             config == CsvConfig(row)
         IN  load_cache_from_csv(
                [o EXCEPT !.config_cache = (config_to_key(config) :> row.pnl) @@ @,
                          !.all_results = Append(@, <<row.pnl, config>>)],
                i + 1)

\* list.sort(reverse=True, key=lambda x: x[0]): stable, largest pnl first
RECURSIVE InsertDesc(_, _)
InsertDesc(sorted, x) ==
    IF sorted = <<>> THEN <<x>>
    ELSE IF Head(sorted)[1] >= x[1] THEN <<Head(sorted)>> \o InsertDesc(Tail(sorted), x)
    ELSE <<x>> \o sorted

RECURSIVE SortDesc(_)
SortDesc(l) ==
    IF l = <<>> THEN <<>>
    ELSE InsertDesc(SortDesc(SubSeq(l, 1, Len(l) - 1)), l[Len(l)])

\* _save_best: sorts all_results in place and rewrites best_results.csv
save_best(o, top_n) ==
    LET sorted == SortDesc(o.all_results)
    IN  [o EXCEPT !.all_results = sorted,
                  !.best_file = SubSeq(sorted, 1, IF Len(sorted) < top_n THEN Len(sorted) ELSE top_n)]

\* save_best_config: rewrites best_config.json
save_best_config(o, config, pnl) ==
    [o EXCEPT !.best_config_file = [exists |-> TRUE, pnl |-> pnl, config |-> config]]

\* the while loop of _generate_values_around_current; before, after, min_val,
\* max_val and step are floats in thousandths
RECURSIVE GenerateLoop(_, _, _, _, _, _, _, _, _)
GenerateLoop(values, before, after, min_val, max_val, step, max_tests, expand_search, max_iterations) ==
    IF Len(values) >= max_iterations THEN values
    ELSE LET v1 == IF after <= max_val THEN Append(values, PyFloat(Round2(after))) ELSE values
             a1 == IF after <= max_val THEN after + step ELSE after
         IN  IF Len(v1) >= max_tests /\ ~ expand_search THEN v1
             ELSE LET v2 == IF before >= min_val
                            THEN Append(v1, PyFloat(Round2(before))) ELSE v1
                      b1 == IF before >= min_val THEN before - step ELSE before
                  IN  IF b1 < min_val /\ a1 > max_val THEN v2
                      ELSE GenerateLoop(v2, b1, a1, min_val, max_val, step, max_tests,
                                        expand_search, max_iterations)

generate_values_around_current(param_name, current_value, max_tests, expand_search) ==
    IF max_tests = 1 /\ ~ expand_search THEN <<current_value>>
    ELSE LET settings == Settings(param_name)
             current == ToFloat(current_value).v
             min_val == ToFloat(settings.min_value).v
             max_val == ToFloat(settings.max_value).v
             step    == ToFloat(settings.step).v
         IN  GenerateLoop(<<PyFloat(Round2(current))>>, current - step, current + step,
                          min_val, max_val, step, max_tests, expand_search,
                          IF expand_search THEN 1000 ELSE max_tests)

\* the filter of _find_untested_values: the first max_tests values whose
\* configuration is not in the cache
RECURSIVE Untested(_, _, _, _, _, _)
Untested(o, param_name, current_config, all_possible_values, max_tests, untested_values) ==
    IF all_possible_values = <<>> \/ Len(untested_values) >= max_tests
    THEN untested_values
    ELSE LET value == Head(all_possible_values)
             test_config == Set(current_config, param_name, value)
         IN  Untested(o, param_name, current_config, Tail(all_possible_values), max_tests,
                      IF config_to_key(test_config) \in DOMAIN o.config_cache
                      THEN untested_values ELSE Append(untested_values, value))

find_untested_values(o, param_name, current_config, max_tests) ==
    Untested(o, param_name, current_config,
             generate_values_around_current(param_name, Get(current_config, param_name),
                                            max_tests, TRUE),
             max_tests, <<>>)

\* load_params: the active parameters by priority
param_order == ParamNames

\* the test on which a parameter step adopts its best configuration
Adopt_Always(best_pnl, current_best_pnl) == TRUE

Adopt(best_pnl, current_best_pnl) == best_pnl > current_best_pnl

\* ParamOptimizer.__init__ in a directory that holds results.csv and perhaps
\* best_config.json
NewOptimizer(results_file, best_config_file, objective) ==
    load_cache_from_csv(
        [ pc |-> "new",
          objective |-> objective,
          results_file |-> results_file,
          best_config_file |-> best_config_file,
          best_file |-> <<>>,
          config_cache |-> <<>>,
          all_results |-> <<>>,
          global_best_pnl |-> NegInf,
          global_best_config |-> None,
          simulated |-> <<>> ], 1)

\* files an earlier version of the program may have left behind
OldResultsFiles ==
    { <<>>,
      << CsvRow(12, <<<<"stop_echappee_threshold", PyFloat(1000)>>,
                      <<"start_echappee_threshold", PyFloat(1500)>>>>) >> }

OldBestConfigFiles ==
    { [exists |-> FALSE, pnl |-> 0, config |-> <<>>],
      [exists |-> TRUE, pnl |-> 5, config |-> <<<<"stop_echappee_threshold", PyFloat(2000)>>,
                               <<"start_echappee_threshold", PyFloat(2000)>>>>] }

\* initial_value of the two parameters in params.json
InitialValues ==
    { <<<<"stop_echappee_threshold", a>>, <<"start_echappee_threshold", b>>>> :
        a \in {PyInt(1000), PyFloat(1000), PyFloat(2000)}, b \in {PyFloat(1500), PyFloat(2500)} }

InitOpt ==
    /\ InitDay
    /\ batch = BatchIdle
    /\ \E results_file \in OldResultsFiles, best_config_file \in OldBestConfigFiles,
          objective \in Objectives, initial \in InitialValues,
          max_tests_per_param \in 1..MaxTests, max_iterations \in 1..MaxIterations,
          reset_from_initial \in BOOLEAN :
          opt = NewOptimizer(results_file, best_config_file, objective) @@
                [ initial |-> initial,
                  max_tests_per_param |-> max_tests_per_param,
                  max_iterations |-> max_iterations,
                  reset_from_initial |-> reset_from_initial,
                  current_best_config |-> <<>>,
                  current_best_pnl |-> 0,
                  iteration |-> 0,
                  iteration_start_pnl |-> 0,
                  force_exploration |-> FALSE,
                  p |-> 0,                    \* index in param_order
                  test_values |-> <<>>,
                  param_results |-> <<>> ]

\* load_best_config: the saved configuration if best_config.json exists, else
\* the initial values
load_best_config(o) ==
    IF o.best_config_file.exists
    THEN [o |-> [o EXCEPT !.global_best_pnl = o.best_config_file.pnl,
                          !.global_best_config = o.best_config_file.config],
          config |-> o.best_config_file.config]
    ELSE [o |-> o, config |-> o.initial]

\* run_optimization up to the loop: start configuration, its pnl, the global
\* best and its checkpoint, the first row of the results
Start ==
    /\ opt.pc = "new"
    /\ LET l  == IF opt.reset_from_initial
                 THEN [o |-> [opt EXCEPT !.global_best_pnl = NegInf,
                                         !.global_best_config = None],
                       config |-> opt.initial]
                 ELSE load_best_config(opt)
           t  == test_params(l.o, l.config)
           o1 == IF t.o.global_best_config = None \/ t.pnl > t.o.global_best_pnl
                 THEN save_best_config([t.o EXCEPT !.global_best_pnl = t.pnl,
                                                   !.global_best_config = l.config],
                                       l.config, t.pnl)
                 ELSE t.o
           o2 == [o1 EXCEPT !.all_results = Append(@, <<t.pnl, l.config>>)]
           o3 == write_result(o2, t.pnl, l.config)
       IN  opt' = [o3 EXCEPT !.pc = "iteration",
                             !.current_best_config = l.config,
                             !.current_best_pnl = t.pnl,
                             !.iteration = 1]
    /\ UNCHANGED dayVars /\ UNCHANGED batch

\* top of the for loop over the iterations
BeginIteration ==
    /\ opt.pc = "iteration"
    /\ opt' = [opt EXCEPT !.pc = "param",
                          !.iteration_start_pnl = opt.current_best_pnl,
                          !.force_exploration =
                              (opt.iteration > 1 /\ opt.current_best_pnl <= PosInf),
                          !.p = 1]
    /\ UNCHANGED dayVars /\ UNCHANGED batch

\* _optimize_single_param: the values to test
BeginParam ==
    /\ opt.pc = "param"
    /\ LET param_name == param_order[opt.p]
           current_value == Get(opt.current_best_config, param_name)
           normal == generate_values_around_current(param_name, current_value,
                                                    opt.max_tests_per_param, FALSE)
           explore == find_untested_values(opt, param_name, opt.current_best_config,
                                           opt.max_tests_per_param)
       IN  opt' = [opt EXCEPT !.pc = "test",
                              !.test_values = IF opt.force_exploration /\ explore # <<>>
                                              THEN explore ELSE normal,
                              !.param_results = <<>>]
    /\ UNCHANGED dayVars /\ UNCHANGED batch

\* _optimize_single_param: one value of the for loop
TestValue ==
    /\ opt.pc = "test"
    /\ opt.test_values # <<>>
    /\ LET param_name == param_order[opt.p]
           value == Head(opt.test_values)
           test_config == Set(opt.current_best_config, param_name, value)
           t  == test_params(opt, test_config)
           o1 == [t.o EXCEPT !.param_results = Append(@, <<t.pnl, value, test_config>>),
                             !.all_results = Append(@, <<t.pnl, test_config>>)]
           o2 == write_result(o1, t.pnl, test_config)
       IN  opt' = [o2 EXCEPT !.test_values = Tail(@)]
    /\ UNCHANGED dayVars /\ UNCHANGED batch

\* the end of _optimize_single_param and the decision of run_optimization
EndParam ==
    /\ opt.pc = "test"
    /\ opt.test_values = <<>>
    /\ LET param_name == param_order[opt.p]
           best == SortDesc(opt.param_results)[1]
           best_pnl == best[1]
           best_value == best[2]
           best_config == best[3]
           o1 == IF Adopt(best_pnl, opt.current_best_pnl)
                 THEN [opt EXCEPT !.current_best_config = best_config,
                                  !.current_best_pnl = best_pnl]
                 ELSE [opt EXCEPT !.current_best_config = Set(@, param_name, best_value)]
       IN  opt' = IF opt.p < Len(param_order)
                  THEN [o1 EXCEPT !.pc = "param", !.p = opt.p + 1]
                  ELSE [o1 EXCEPT !.pc = "end_iteration"]
    /\ UNCHANGED dayVars /\ UNCHANGED batch

\* the end of an iteration without the convergence break of line 448
EndIteration_NoBreak ==
    /\ opt.pc = "end_iteration"
    /\ LET o1 == IF opt.current_best_pnl > opt.global_best_pnl
                 THEN save_best_config(
                          [opt EXCEPT !.global_best_pnl = opt.current_best_pnl,
                                      !.global_best_config = opt.current_best_config],
                          opt.current_best_config, opt.current_best_pnl)
                 ELSE opt
           o2 == save_best(o1, TopN)
       IN  opt' = IF opt.iteration >= opt.max_iterations
                  THEN [o2 EXCEPT !.pc = "after_loop"]
                  ELSE [o2 EXCEPT !.pc = "iteration", !.iteration = opt.iteration + 1]
    /\ UNCHANGED dayVars /\ UNCHANGED batch

\* the end of an iteration: global best and its checkpoint, best_results.csv,
\* convergence
EndIteration ==
    /\ opt.pc = "end_iteration"
    /\ LET iteration_gain == opt.current_best_pnl - opt.iteration_start_pnl
           o1 == IF opt.current_best_pnl > opt.global_best_pnl
                 THEN save_best_config(
                          [opt EXCEPT !.global_best_pnl = opt.current_best_pnl,
                                      !.global_best_config = opt.current_best_config],
                          opt.current_best_config, opt.current_best_pnl)
                 ELSE opt
           o2 == save_best(o1, TopN)
       IN  opt' = IF iteration_gain <= 0 \/ opt.iteration >= opt.max_iterations
                  THEN [o2 EXCEPT !.pc = "after_loop"]
                  ELSE [o2 EXCEPT !.pc = "iteration", !.iteration = opt.iteration + 1]
    /\ UNCHANGED dayVars /\ UNCHANGED batch

\* after the loop: the final best_results.csv
Finish ==
    /\ opt.pc = "after_loop"
    /\ opt' = [save_best(opt, TopN) EXCEPT !.pc = "done"]
    /\ UNCHANGED dayVars /\ UNCHANGED batch

NextOpt ==
    \/ Start
    \/ BeginIteration
    \/ BeginParam
    \/ TestValue
    \/ EndParam
    \/ EndIteration
    \/ Finish

SpecOpt == InitOpt /\ [][NextOpt]_vars

(***************************************************************************)
(* save_best_config statement by statement                                 *)
(*                                                                         *)
(* best_config.json on disk is a sequence of chunks, the pieces json.dump  *)
(* hands to f.write one after the other.  The process may stop between any *)
(* two statements; what the file then holds is what reached the disk.      *)
(***************************************************************************)
CheckpointPnls == {0, 5, 12}

\* json.dump(data, f, indent=4): the chunks written for data, in order
DumpChunks(data) ==
    << [key |-> "{",         num |-> 0,              items |-> <<>>],
       [key |-> "timestamp", num |-> data.timestamp, items |-> <<>>],
       [key |-> "pnl",       num |-> data.pnl,       items |-> <<>>],
       [key |-> "config",    num |-> 0,              items |-> data.config],
       [key |-> "}",         num |-> 0,              items |-> <<>>] >>

\* a call save_best_config(config, pnl) in a directory where best_config.json
\* is absent or holds the record of an earlier call
InitSave ==
    /\ InitDay
    /\ batch = BatchIdle
    /\ \E old \in {<<>>} \cup {DumpChunks([timestamp |-> 1, pnl |-> p, config |-> c]) :
                                  p \in CheckpointPnls, c \in InitialValues},
          pnl \in CheckpointPnls, config \in InitialValues :
          opt = [ pc |-> "call",
                  exists |-> (old # <<>>),      \* best_config.json exists
                  file |-> old,                 \* its content on disk
                  old |-> old,
                  data |-> [timestamp |-> 2, pnl |-> pnl, config |-> config],
                  written |-> 0 ]               \* chunks handed to f.write

\* open(self.best_config_file, "w"): creates the file or truncates it
OpenForWrite ==
    /\ opt.pc = "call"
    /\ opt' = [opt EXCEPT !.pc = "open", !.exists = TRUE, !.file = <<>>]
    /\ UNCHANGED dayVars /\ UNCHANGED batch

\* one f.write of json.dump: the chunk enters the buffer of f; the buffer
\* may be flushed to the disk now or later, as far as it has been written
WriteChunk ==
    /\ opt.pc = "open"
    /\ opt.written < Len(DumpChunks(opt.data))
    /\ \E flushed \in Len(opt.file)..(opt.written + 1) :
          opt' = [opt EXCEPT !.written = @ + 1,
                             !.file = SubSeq(DumpChunks(opt.data), 1, flushed)]
    /\ UNCHANGED dayVars /\ UNCHANGED batch

\* the end of the with block: the buffer is flushed and the file closed
CloseFile ==
    /\ opt.pc = "open"
    /\ opt.written = Len(DumpChunks(opt.data))
    /\ opt' = [opt EXCEPT !.pc = "closed", !.file = DumpChunks(opt.data)]
    /\ UNCHANGED dayVars /\ UNCHANGED batch

\* the process stops (killed, power loss): the disk keeps what it holds
Stop ==
    /\ opt.pc \in {"call", "open", "closed"}
    /\ opt' = [opt EXCEPT !.pc = "stopped"]
    /\ UNCHANGED dayVars /\ UNCHANGED batch

NextSave ==
    \/ OpenForWrite
    \/ WriteChunk
    \/ CloseFile
    \/ Stop

SpecSave == InitSave /\ [][NextSave]_vars

(***************************************************************************)
(* _generate_values_around_current alone, on the settings and the current  *)
(* value of one numeric parameter (values in thousandths)                  *)
(***************************************************************************)
GenCurrents == {PyInt(1000), PyInt(2000), PyFloat(1000), PyFloat(1234), PyFloat(1500),
                PyFloat(2750), PyFloat(3000), PyFloat(3500)}

\* settings with a coarse step for any of the current values, and settings
\* with a step of 0.004 or 0.01 for the current values near their range
GenInputs ==
    ( { [min_value |-> PyFloat(lo), max_value |-> PyFloat(lo + 2000), step |-> PyFloat(st)] :
          lo \in {0, 1000}, st \in {250, 500} } \X GenCurrents )
    \cup
    ( { [min_value |-> PyFloat(1000), max_value |-> PyFloat(1040), step |-> PyFloat(st)] :
          st \in {4, 10} } \X {PyInt(1000), PyFloat(1000), PyFloat(1234)} )

InitGen ==
    /\ InitDay
    /\ batch = BatchIdle
    /\ \E input \in GenInputs, max_tests \in 1..MaxTests, expand_search \in BOOLEAN :
          opt = [ pc |-> "generate",
                  settings |-> input[1],
                  current_value |-> input[2],
                  max_tests |-> max_tests,
                  expand_search |-> expand_search,
                  values |-> <<>> ]

\* the call _generate_values_around_current(param_name, current_value,
\* max_tests, expand_search) where self.params[param_name] is opt.settings
GenerateValues ==
    /\ opt.pc = "generate"
    /\ LET current == ToFloat(opt.current_value).v
           min_val == ToFloat(opt.settings.min_value).v
           max_val == ToFloat(opt.settings.max_value).v
           step    == ToFloat(opt.settings.step).v
       IN  opt' = [opt EXCEPT
                     !.pc = "returned",
                     !.values =
                        IF opt.max_tests = 1 /\ ~ opt.expand_search
                        THEN <<opt.current_value>>
                        ELSE GenerateLoop(<<PyFloat(Round2(current))>>, current - step,
                                          current + step, min_val, max_val, step,
                                          opt.max_tests, opt.expand_search,
                                          IF opt.expand_search THEN 1000 ELSE opt.max_tests)]
    /\ UNCHANGED dayVars /\ UNCHANGED batch

SpecGen == InitGen /\ [][GenerateValues]_vars

(***************************************************************************)
(* Direct use of the cache: _test_params called on configurations built    *)
(* by a caller, in any insertion order.                                    *)
(***************************************************************************)
EvalValues == {PyInt(1000), PyFloat(1000), PyFloat(1500)}

EvalConfigs ==
    { <<<<n[1], a>>, <<n[2], b>>>> :
        n \in {ParamNames, <<ParamNames[2], ParamNames[1]>>},
        a \in EvalValues, b \in EvalValues }

InitEval ==
    /\ InitDay
    /\ batch = BatchIdle
    /\ \E results_file \in OldResultsFiles, objective \in Objectives :
          opt = [NewOptimizer(results_file, [exists |-> FALSE, pnl |-> 0, config |-> <<>>],
                              objective) EXCEPT !.pc = "eval"]
                @@ [calls |-> <<>>]       \* history of the calls and their outcome

TestParams(param_values) ==
    /\ opt.pc = "eval"
    /\ Len(opt.calls) < MaxCalls
    /\ LET t == test_params(opt, param_values)
       IN  opt' = [t.o EXCEPT !.calls = Append(@, [config |-> param_values,
                                                   hit |-> t.hit, pnl |-> t.pnl])]
    /\ UNCHANGED dayVars /\ UNCHANGED batch

NextEval == \E param_values \in EvalConfigs : TestParams(param_values)

SpecEval == InitEval /\ [][NextEval]_vars

(***************************************************************************)
(* The results log as a csv file with one header line: the evaluation      *)
(* steps of param_optimizer_chat.py and param_optimizer_chat2.py           *)
(***************************************************************************)
\* ResultCache._append_csv (and write_csv_row): csv.DictWriter with the
\* fieldnames of this row; the header line is written only into a new file,
\* the values of a row always in the order of that row's own keys.  The pnl
\* column comes first in both and is kept apart.
append_csv(log, pnl, config) ==
    [ exists |-> TRUE,
      header |-> IF log.exists THEN log.header
                 ELSE [i \in 1..Len(config) |-> config[i][1]],
      rows   |-> Append(log.rows,
                        [ pnl    |-> NumberText(PyFloat(pnl)),
                          values |-> [i \in 1..Len(config) |->
                                         NumberText(config[i][2])] ]) ]

\* ResultCache._load from line i on: csv.DictReader names the values of every
\* line by the header line; float(pnl) and _parse_csv_value of the others; a
\* later line replaces an earlier one with the same key
RECURSIVE csv_load(_, _, _)
csv_load(log, data, i) ==
    IF i > Len(log.rows) THEN data
    ELSE LET row    == log.rows[i]
             config == [k \in 1..Len(log.header) |->
                          <<log.header[k], ParseNumber(row.values[k])>>]
         IN  csv_load(log,
                      (config_to_key(config) :> ToFloat(ParseNumber(row.pnl)).v) @@ data,
                      i + 1)

\* A process that starts on a log an earlier run of the same program left:
\* param_optimizer_chat2.py on no file or on a file of one row,
\* param_optimizer_chat.py on no file.  calls is the history of the
\* evaluations: the configuration, hit or miss, the pnl returned.
InitLog ==
    /\ InitDay
    /\ batch = BatchIdle
    /\ \E variant \in {"chat", "chat2"},
          objective \in {[kind |-> "peak", stop |-> 1000, start |-> 1500],
                         [kind |-> "peak", stop |-> 2000, start |-> 2500]},
          old \in BOOLEAN :
          LET none == [exists |-> FALSE, header |-> <<>>, rows |-> <<>>]
              log  == IF old /\ variant = "chat2"
                      THEN append_csv(none, 12, <<<<"stop_echappee_threshold", PyFloat(1000)>>,
                                                  <<"start_echappee_threshold", PyFloat(1500)>>>>)
                      ELSE none
          IN  opt = [ pc |-> "log", variant |-> variant, objective |-> objective,
                      log |-> log,
                      config_cache |-> csv_load(log, <<>>, 1),
                      simulated |-> <<>>,
                      calls |-> <<>>,
                      reloaded |-> FALSE ]

\* param_optimizer_chat2.py, ParamOptimizer.evaluate(config): the cached pnl
\* on a hit; on a miss the simulation, then ResultCache.store: the pnl enters
\* the cache and a row is appended to the csv file
Evaluate(config) ==
    /\ opt.pc = "log" /\ opt.variant = "chat2"
    /\ Len(opt.calls) < MaxCalls
    /\ LET t == test_params(opt, config)
       IN  opt' = [t.o EXCEPT
                     !.log = IF t.hit THEN @ ELSE append_csv(@, t.pnl, config),
                     !.calls = Append(@, [config |-> config, hit |-> t.hit,
                                          pnl |-> t.pnl]),
                     !.reloaded = FALSE]
    /\ UNCHANGED dayVars /\ UNCHANGED batch

\* param_optimizer_chat.py, one pass of the loop of _optimize_param (and the
\* start of run_optimization): _test_config(cfg), then write_csv_row
OptimizeParamStep(cfg) ==
    /\ opt.pc = "log" /\ opt.variant = "chat"
    /\ Len(opt.calls) < MaxCalls
    /\ LET t == test_params(opt, cfg)
       IN  opt' = [t.o EXCEPT
                     !.log = append_csv(@, t.pnl, cfg),
                     !.calls = Append(@, [config |-> cfg, hit |-> t.hit,
                                          pnl |-> t.pnl])]
    /\ UNCHANGED dayVars /\ UNCHANGED batch

\* A later process of param_optimizer_chat2.py constructs ResultCache on the
\* file: self.data is what _load reads
Reload ==
    /\ opt.pc = "log" /\ opt.variant = "chat2"
    /\ opt.calls # <<>>
    /\ opt' = [opt EXCEPT !.config_cache = IF opt.log.exists
                                           THEN csv_load(opt.log, <<>>, 1) ELSE <<>>,
                          !.reloaded = TRUE]
    /\ UNCHANGED dayVars /\ UNCHANGED batch

SpecLog ==
    InitLog /\ [][ \/ \E config \in EvalConfigs : Evaluate(config)
                   \/ \E cfg \in EvalConfigs : OptimizeParamStep(cfg)
                   \/ Reload ]_vars

(***************************************************************************)
(* SortedPnlTable alone: any sequence of update_ticker and                 *)
(* has_been_resorted calls                                                 *)
(***************************************************************************)
MaxTableTicks == 4

TablePrices      == {50, 100, 150, 200}
TableFirstPrices == {50, 100}

InitTable ==
    /\ InitDay
    /\ batch = BatchIdle
    /\ opt = OptIdle

\* SortedPnlTable.update_ticker(ticker, price, timestamp)
TableUpdate(ticker, price) ==
    /\ now < MaxTableTicks
    /\ now' = now + 1
    /\ IF ticker \notin DOMAIN ticker_map
       THEN /\ price \in TableFirstPrices
            /\ ticker_map' = (ticker :> NewTickerEntry(price, now + 1)) @@ ticker_map
       ELSE /\ ~ UpdateRaises(ticker_map[ticker])
            /\ ticker_map' = [ticker_map EXCEPT
                                ![ticker] = EntryUpdate(@, price, now + 1)]
    /\ updates_since_last_sort' = updates_since_last_sort + 1
    /\ lastCall' = Call("update_ticker", ticker, TRUE, 0)
    /\ UNCHANGED <<sorted_tickers, trades, cash, total_pnl, algo, batch, opt>>

\* SortedPnlTable.has_been_resorted(threshold)
HasBeenResorted(threshold) ==
    LET h == has_been_resorted(ticker_map, sorted_tickers, updates_since_last_sort,
                               threshold)
    IN  /\ sorted_tickers' = h.sorted_tickers
        /\ updates_since_last_sort' = h.updates_since_last_sort
        /\ lastCall' = Call("has_been_resorted", "", h.ret, threshold)
        /\ UNCHANGED <<ticker_map, now, trades, cash, total_pnl, algo, batch, opt>>

NextTable ==
    \/ \E ticker \in Tickers, price \in TablePrices : TableUpdate(ticker, price)
    \/ \E threshold \in 1..MaxTableTicks : HasBeenResorted(threshold)

SpecTable == InitTable /\ [][NextTable]_vars

(***************************************************************************)
(* AlgoEchappee (src/src/algo_echappee.py)                                 *)
(*                                                                         *)
(* Market pnl values are whole percents, the two std multipliers are in    *)
(* hundredths (50 is 0.50).  np.mean and np.std are never computed: every  *)
(* comparison with mean + k * std is decided exactly on integers, with     *)
(* n = len(pnls), S = sum(pnls), D = n * sum(pnls^2) - S^2 (so std is      *)
(* sqrt(D) / n).                                                           *)
(***************************************************************************)
MaxDayTicks     == 6        \* ticks in one day file
ResortThreshold == 1        \* has_been_resorted(threshold), scaled down from 1000

DayTickers  == {"A", "B", "C"}
TickerOrder == <<"A", "B", "C">>     \* the order of sorted() on tickers
DayPrices   == {100, 130}
FirstPrices == {100}                 \* a symbol's first price of the day
TickGaps    == {60}                  \* seconds between two ticks of a file
TopK        == 15                    \* table.get_top_n(15)
MinStd      == 5                     \* `if std_pnl < 5`
UtcOffset   == 6 * 3600              \* timedelta(hours=-6)
DayStart    == 9 * 3600 + 28 * 60 + UtcOffset   \* 09:28:00 on the strategy's clock

\* _get_date: the day number stands for the 'YYYY-MM-DD' string
get_date(ts) == (ts - UtcOffset) \div 86400

\* _get_hour, in minutes instead of decimal hours: dt.hour * 60 + dt.minute
get_hour(ts) == ((ts - UtcOffset) % 86400) \div 60

\* _parse_time of "HH:MM", given as <<HH, MM>>, in minutes
parse_time(hm) == hm[1] * 60 + hm[2]

TradesCount(a, date) ==
    IF date \in DOMAIN a.trades_today THEN a.trades_today[date] ELSE 0

\* _can_open_trade without the upper end of the trading window
can_open_trade_NoCutoff(a, ts) ==
    /\ parse_time(a.trade_start_hour) <= get_hour(ts)
    /\ ~ (TradesCount(a, get_date(ts)) >= a.max_trades_per_day)

\* _can_open_trade
can_open_trade(a, ts) ==
    /\ parse_time(a.trade_start_hour) <= get_hour(ts)
    /\ get_hour(ts) < parse_time(a.trade_cutoff_hour)
    /\ ~ (TradesCount(a, get_date(ts)) >= a.max_trades_per_day)

\* SortedPnlTable.get_top_n
get_top_n(sorted, n) ==
    SubSeq(sorted, 1, IF Len(sorted) < n THEN Len(sorted) ELSE n)

\* [entry.get_pnl() for ticker, entry in top]
Pnls(tm, top) == [i \in 1..Len(top) |-> tm[top[i]].current_pnl]

\* n^2 times the variance np.std squares; `if len(pnls) > 2 else 0`
Dev(pnls) ==
    LET n == Len(pnls)
        S == SumSeq(pnls)
        Q == SumSeq([i \in 1..n |-> pnls[i] * pnls[i]])
    IN  IF n > 2 THEN n * Q - S * S ELSE 0

\* L > k * sqrt(D) for integers L, k and D >= 0
GreaterThanScaledRoot(L, k, D) ==
    IF k >= 0 THEN L > 0 /\ L * L > k * k * D
              ELSE L >= 0 \/ L * L < k * k * D

\* x > mean + (k / 100) * std, the mean of no value being 0.0
AboveSeuil(x, pnls, k) ==
    LET n == Len(pnls)
    IN  IF n = 0 THEN x > 0
        ELSE GreaterThanScaledRoot(100 * (n * x - SumSeq(pnls)), k, Dev(pnls))

\* the noise floor reduced to `len(pnls) > 2 else 0`: only the lists of fewer
\* than three values count as flat
StdBelow_FewOnly(pnls, bound) == Len(pnls) <= 2

\* std_pnl < bound
StdBelow(pnls, bound) == Dev(pnls) < bound * bound * Len(pnls) * Len(pnls)

\* calculate_echappees: the two timer dicts after the call and the list
\* returned
calculate_echappees(a, tm, sorted, ts) ==
    LET top_15 == get_top_n(sorted, TopK)
        pnls   == Pnls(tm, top_15)
        same   == [ escape_start_times |-> a.escape_start_times,
                    top_n_start_times  |-> a.top_n_start_times,
                    echappees          |-> <<>> ]
    IN  IF top_15 = <<>> THEN same
        ELSE IF StdBelow(pnls, MinStd) THEN same
        ELSE
        LET listed   == {top_15[i] : i \in 1..Len(top_15)}
            idx(t)   == CHOOSE i \in 1..Len(top_15) : top_15[i] = t
            in_top_n == {t \in listed : idx(t) - 1 < a.top_n_threshold}
            above    == {t \in listed :
                           AboveSeuil(tm[t].current_pnl, pnls,
                                      a.start_echappee_threshold)}
            old_top  == a.top_n_start_times
            old_esc  == a.escape_start_times
            top_n    == [t \in (DOMAIN old_top \ (listed \ in_top_n)) \cup in_top_n |->
                            IF t \in DOMAIN old_top THEN old_top[t] ELSE ts]
            escape   == [t \in (DOMAIN old_esc \ (listed \ above)) \cup above |->
                            IF t \in DOMAIN old_esc THEN old_esc[t] ELSE ts]
            ok(t)    == /\ t \in above
                        /\ t \in DOMAIN old_esc
                        /\ ts - old_esc[t] >= a.min_escape_time
                        /\ t \in DOMAIN top_n
                        /\ ts - top_n[t] >= a.min_escape_time
        IN  [ escape_start_times |-> escape,
              top_n_start_times  |-> top_n,
              echappees          |-> SelectSeq(top_15, ok) ]

\* Portfolio.is_ticker_in_portfolio
is_ticker_in_portfolio(ts, ticker) == Hit(ts, ticker) # {}

\* Portfolio.get_open_tickers
get_open_tickers(ts) ==
    LET open(t) == is_ticker_in_portfolio(ts, t)
    IN  SelectSeq(TickerOrder, open)

\* Portfolio.get_open_trade_best_pnl after its call of table.resort():
\* <<>> stands for None
get_open_trade_best_pnl(ts, sorted) ==
    LET open(t) == is_ticker_in_portfolio(ts, t)
        held    == SelectSeq(sorted, open)
    IN  IF held = <<>> THEN <<>> ELSE <<Head(held)>>

\* The quantity rounded up instead of truncated
Quantity_RoundUp(a, last_price) ==
    (a.trade_value_eur + last_price - 1) \div last_price

\* int(trade_value_eur / last_price)
Quantity(a, last_price) == a.trade_value_eur \div last_price

\* The exit rules without the take-profit test
ShouldExit_NoTakeProfit(ts_, tm, a, ticker, timestamp) ==
    LET e == tm[ticker]
    IN  \/ /\ e.global_max_pnl > 0
           /\ e.global_max_pnl - e.current_pnl >= a.trail_stop_market_pnl
        \/ timestamp - e.global_max_time >= a.max_pnl_timeout_minutes * 60
        \/ \E i \in Hit(ts_, ticker) :
              timestamp - ts_[i].entry_time >= a.max_trade_duration_minutes * 60

\* main, first loop: does one of the four exit rules close the ticker?
ShouldExit(ts_, tm, a, ticker, timestamp) ==
    LET e == tm[ticker]
    IN  \/ e.current_pnl >= a.take_profit_market_pnl
        \/ /\ e.global_max_pnl > 0
           /\ e.global_max_pnl - e.current_pnl >= a.trail_stop_market_pnl
        \/ timestamp - e.global_max_time >= a.max_pnl_timeout_minutes * 60
        \/ \E i \in Hit(ts_, ticker) :
              timestamp - ts_[i].entry_time >= a.max_trade_duration_minutes * 60

\* main, first loop over get_open_tickers()
RECURSIVE ExitLoop(_, _, _, _, _)
ExitLoop(p, tickers, tm, a, timestamp) ==
    IF tickers = <<>> THEN p
    ELSE LET t == Head(tickers)
             q == IF HasPrice(tm, t) /\ ShouldExit(p.trades, tm, a, t, timestamp)
                  THEN close_position(p, t, get_last_price(tm, t), timestamp, tm)
                  ELSE p
         IN  ExitLoop(q, Tail(tickers), tm, a, timestamp)

\* main, second loop: market_pnl <= mean_pnl - std_pnl * stop_echappee_threshold
RECURSIVE StopLoop(_, _, _, _, _, _)
StopLoop(p, tickers, tm, a, pnls, timestamp) ==
    IF tickers = <<>> THEN p
    ELSE LET t == Head(tickers)
             q == IF /\ ~ AboveSeuil(tm[t].current_pnl, pnls,
                                     - a.stop_echappee_threshold)
                     /\ HasPrice(tm, t)
                  THEN close_position(p, t, get_last_price(tm, t), timestamp, tm)
                  ELSE p
         IN  StopLoop(q, Tail(tickers), tm, a, pnls, timestamp)

\* The bookkeeping without `self.traded_tickers.add(ticker)`
Bookkeeping_NotTraded(a, before, sorted, kind, ticker, quantity, timestamp) ==
    LET date == get_date(timestamp)
    IN  [a EXCEPT !.last_trade_time = <<timestamp>>,
                  !.trades_today    = (date :> TradesCount(a, date) + 1) @@ @,
                  !.opened = Append(@, [ kind     |-> kind,
                                         ticker   |-> ticker,
                                         quantity |-> quantity,
                                         time     |-> timestamp,
                                         index    |-> Len(before) + 1,
                                         held     |-> {before[i].ticker :
                                                          i \in OpenIdx(before)},
                                         sorted   |-> sorted ])]

\* The bookkeeping after a successful open_trade; `opened` is the history
\* of the opens: which path opened, what was held and how the table was
\* ranked at that moment.
Bookkeeping(a, before, sorted, kind, ticker, quantity, timestamp) ==
    LET date == get_date(timestamp)
    IN  [a EXCEPT !.traded_tickers  = @ \cup {ticker},
                  !.last_trade_time = <<timestamp>>,
                  !.trades_today    = (date :> TradesCount(a, date) + 1) @@ @,
                  !.opened = Append(@, [ kind     |-> kind,
                                         ticker   |-> ticker,
                                         quantity |-> quantity,
                                         time     |-> timestamp,
                                         index    |-> Len(before) + 1,
                                         held     |-> {before[i].ticker :
                                                          i \in OpenIdx(before)},
                                         sorted   |-> sorted ])]

\* main, the loop over the echappees; s is [p, a]
RECURSIVE OpenEchappees(_, _, _, _, _)
OpenEchappees(s, echappees, tm, sorted, timestamp) ==
    IF echappees = <<>> THEN s
    ELSE LET t  == Head(echappees)
             lp == get_last_price(tm, t)
             r  == open_trade(s.p, tm, t, Quantity(s.a, lp), timestamp)
             s1 == IF /\ t \notin s.a.traded_tickers
                      /\ ~ is_ticker_in_portfolio(s.p.trades, t)
                      /\ HasPrice(tm, t) /\ lp > 0
                      /\ tm[t].current_pnl > s.a.min_market_pnl
                      /\ Quantity(s.a, lp) > 0
                      /\ r.ret
                   THEN [p |-> r,
                         a |-> Bookkeeping(s.a, s.p.trades, sorted, "echappee",
                                           t, Quantity(s.a, lp), timestamp)]
                   ELSE s
         IN  OpenEchappees(s1, Tail(echappees), tm, sorted, timestamp)

\* main, `if self._can_open_trade(timestamp):` and the block under it
OpenBreakouts(s, tm, sorted, timestamp) ==
    IF can_open_trade(s.a, timestamp)
    THEN LET c  == calculate_echappees(s.a, tm, sorted, timestamp)
             a1 == [s.a EXCEPT !.escape_start_times = c.escape_start_times,
                               !.top_n_start_times  = c.top_n_start_times]
         IN  OpenEchappees([p |-> s.p, a |-> a1], c.echappees, tm, sorted, timestamp)
    ELSE s

\* main, the periodic opening; the table it leaves is resort(tm) whenever
\* get_open_trade_best_pnl was called
PeriodicDue(a, timestamp) ==
    /\ \/ a.last_trade_time = <<>>
       \/ timestamp - a.last_trade_time[1] >= a.trade_interval_minutes * 60
    /\ can_open_trade(a, timestamp)

OpenPeriodic(s, tm, timestamp) ==
    IF ~ PeriodicDue(s.a, timestamp) THEN s
    ELSE LET best == get_open_trade_best_pnl(s.p.trades, resort(tm))
         IN  IF best = <<>> THEN s
             ELSE LET t  == best[1]
                      lp == get_last_price(tm, t)
                      r  == open_trade(s.p, tm, t, Quantity(s.a, lp), timestamp)
                  IN  IF HasPrice(tm, t) /\ lp > 0 /\ Quantity(s.a, lp) > 0 /\ r.ret
                      THEN [p |-> r,
                            a |-> Bookkeeping(s.a, s.p.trades, resort(tm), "periodic",
                                              t, Quantity(s.a, lp), timestamp)]
                      ELSE s

\* AlgoEchappee.main(table, timestamp): the ledger and the run state after
\* the call
main(p, a, tm, sorted, timestamp) ==
    LET p1   == ExitLoop(p, get_open_tickers(p.trades), tm, a, timestamp)
        pnls == Pnls(tm, get_top_n(sorted, TopK))
        p2   == StopLoop(p1, get_open_tickers(p1.trades), tm, a, pnls, timestamp)
        s3   == OpenBreakouts([p |-> p2, a |-> a], tm, sorted, timestamp)
    IN  OpenPeriodic(s3, tm, timestamp)

(***************************************************************************)
(* SingleFileSimulator.run_single_file (src/single_file_simulator.py)      *)
(***************************************************************************)
\* The defaults of AlgoEchappee.__init__
DefaultParams ==
    [ take_profit_market_pnl     |-> 50,
      min_escape_time            |-> 300,
      trail_stop_market_pnl      |-> 20,
      stop_echappee_threshold    |-> 0,
      start_echappee_threshold   |-> 78,
      min_market_pnl             |-> 15,
      top_n_threshold            |-> 5,
      trade_interval_minutes     |-> 30,
      trade_value_eur            |-> 100,
      max_pnl_timeout_minutes    |-> 60,
      max_trades_per_day         |-> 3,
      trade_cutoff_hour          |-> <<14, 0>>,
      trade_start_hour           |-> <<9, 30>>,
      max_trade_duration_minutes |-> 60 ]

\* The parameter maps the day files are run with
BaseParams ==
    [DefaultParams EXCEPT !.min_escape_time = 60,
                          !.start_echappee_threshold = 50,
                          !.trade_value_eur = 1000]

ParamSets ==
    { [BaseParams EXCEPT !.max_trades_per_day = 1],
      [BaseParams EXCEPT !.max_trades_per_day = 2, !.trade_interval_minutes = 1],
      [BaseParams EXCEPT !.take_profit_market_pnl = 30],
      [BaseParams EXCEPT !.trade_value_eur = 100],
      [BaseParams EXCEPT !.min_escape_time = 0],
      [BaseParams EXCEPT !.min_escape_time = 0, !.trade_interval_minutes = 1,
                         !.trade_cutoff_hour = <<9, 34>>] }

\* A constructor whose run state is shared between the instances (mutable
\* class attributes): the second instance starts with what the first left.
NewAlgo_Shared(params) ==
    IF "state" \in DOMAIN algo
    THEN [algo.state EXCEPT !.opened = <<>>, !.cycles = <<>>]
    ELSE [ traded_tickers     |-> {},
           escape_start_times |-> <<>>,
           top_n_start_times  |-> <<>>,
           last_trade_time    |-> <<>>,
           trades_today       |-> <<>>,
           opened             |-> <<>>,
           cycles             |-> <<>> ] @@ params

\* AlgoEchappee.__init__: the run state it creates, next to the parameters
NewAlgo(params) ==
    [ traded_tickers     |-> {},
      escape_start_times |-> <<>>,
      top_n_start_times  |-> <<>>,
      last_trade_time    |-> <<>>,
      trades_today       |-> <<>>,
      opened             |-> <<>>,
      cycles             |-> <<>> ] @@ params

\* roi: a quotient num / den, or float('inf')
Roi(file_pnl, file_invested_capital) ==
    IF file_invested_capital # 0
    THEN [inf |-> FALSE, num |-> file_pnl * 100, den |-> file_invested_capital]
    ELSE [inf |-> TRUE, num |-> 0, den |-> 1]

\* The dict returned for a file that does not exist
MissingFileResult ==
    [ file_pnl |-> 0, file_invested_capital |-> 0, num_traded |-> 0,
      roi |-> [inf |-> FALSE, num |-> 0, den |-> 1] ]

\* The dict returned at the end of a run, with num_traded counting the closed
\* trades instead of the set of their tickers
DayResult_CountTrades(p) ==
    LET closed   == {i \in 1..Len(p.trades) : p.trades[i].status = "closed"}
        invested == SumSeq([i \in 1..Len(p.trades) |->
                              IF i \in closed THEN p.trades[i].invested_amount ELSE 0])
    IN  [ file_pnl              |-> p.total_pnl,
          file_invested_capital |-> invested,
          num_traded            |-> Cardinality(closed),
          roi                   |-> Roi(p.total_pnl, invested) ]

\* The dict returned at the end of a run
DayResult(p) ==
    LET closed   == {i \in 1..Len(p.trades) : p.trades[i].status = "closed"}
        invested == SumSeq([i \in 1..Len(p.trades) |->
                              IF i \in closed THEN p.trades[i].invested_amount ELSE 0])
    IN  [ file_pnl              |-> p.total_pnl,
          file_invested_capital |-> invested,
          num_traded            |-> Cardinality({p.trades[i].ticker : i \in closed}),
          roi                   |-> Roi(p.total_pnl, invested) ]

\* The timestamp of the tick read after the one at `ts` (0.0 before the
\* first tick)
NextTimestamp(ts, gap) == IF ts = 0 THEN DayStart + gap ELSE ts + gap

\* A call of run_single_file(data_file, params): the file exists or not,
\* and the ticks it holds are read one by one.
InitRun(sets) ==
    /\ ticker_map = <<>>
    /\ sorted_tickers = <<>>
    /\ updates_since_last_sort = 0
    /\ trades = <<>>
    /\ cash = InitialCash
    /\ total_pnl = 0
    /\ now = 0
    /\ lastCall = NoCall
    /\ \E exists \in BOOLEAN, params \in sets :
          algo = [pc |-> "called", exists |-> exists, params |-> params,
                  file |-> <<>>, read |-> 0, run |-> 1, first |-> <<>>,
                  ret |-> <<>>]
    /\ batch = BatchIdle
    /\ opt = OptIdle

InitDayRun == InitRun(ParamSets)

\* `if not os.path.exists(data_file): return {...}`
MissingFile ==
    /\ algo.pc = "called"
    /\ ~ algo.exists
    /\ algo' = [algo EXCEPT !.pc = "done", !.ret = MissingFileResult]
    /\ UNCHANGED <<tableVars, portfolioVars, now, lastCall, batch, opt>>

\* logger, table and algo are constructed; timestamp = 0.0
Construct ==
    /\ algo.pc = "called"
    /\ algo.exists
    /\ ticker_map' = <<>>
    /\ sorted_tickers' = <<>>
    /\ updates_since_last_sort' = 0
    /\ trades' = <<>>
    /\ cash' = InitialCash
    /\ total_pnl' = 0
    /\ now' = 0
    /\ algo' = [state |-> NewAlgo(algo.params)]
                @@ [algo EXCEPT !.pc = "run", !.read = 0, !.ret = <<>>]
    /\ UNCHANGED <<lastCall, batch, opt>>

\* One pass of the loop over logger.read_all(): update_ticker (an exception
\* skips the rest of the pass), refresh_prices, and main when
\* has_been_resorted() says so.
LoopBody(ticker, price, timestamp) ==
    LET raises == ticker \in DOMAIN ticker_map /\ UpdateRaises(ticker_map[ticker])
        tm == IF ticker \notin DOMAIN ticker_map
              THEN (ticker :> NewTickerEntry(price, timestamp)) @@ ticker_map
              ELSE IF raises
              THEN [ticker_map EXCEPT ![ticker] = EntryAfterRaise(@, price, timestamp)]
              ELSE [ticker_map EXCEPT ![ticker] = EntryUpdate(@, price, timestamp)]
        p  == [trades |-> refresh_prices(trades, tm), cash |-> cash,
               total_pnl |-> total_pnl]
        h  == has_been_resorted(tm, sorted_tickers, updates_since_last_sort + 1,
                                ResortThreshold)
        sorted == h.sorted_tickers
        s  == main(p, algo.state, tm, sorted, timestamp)
        a  == algo.state
        \* the ticks of the file, known once read
        file == IF algo.read < Len(algo.file) THEN algo.file
                ELSE Append(algo.file, <<timestamp, ticker, price>>)
        \* what main was called on, kept as history of the run
        cycle == [ time   |-> timestamp,
                   sorted |-> sorted,
                   pnl    |-> [t \in DOMAIN tm |-> tm[t].current_pnl],
                   price  |-> [t \in DOMAIN tm |-> tm[t].last_price],
                   held   |-> {trades[i].ticker : i \in OpenIdx(trades)},
                   traded |-> a.traded_tickers,
                   count  |-> TradesCount(a, get_date(timestamp)),
                   cash   |-> cash,
                   open   |-> {p.trades[i] : i \in OpenIdx(p.trades)} ]
    IN  /\ now' = timestamp
        /\ ticker_map' = tm
        /\ IF raises
           THEN /\ UNCHANGED <<sorted_tickers, updates_since_last_sort, portfolioVars>>
                /\ algo' = [algo EXCEPT !.read = @ + 1, !.file = file]
           ELSE IF h.ret
           THEN /\ sorted_tickers' = sorted
                /\ updates_since_last_sort' = h.updates_since_last_sort
                /\ trades' = s.p.trades
                /\ cash' = s.p.cash
                /\ total_pnl' = s.p.total_pnl
                /\ algo' = [algo EXCEPT !.read = @ + 1, !.file = file,
                                        !.state = [s.a EXCEPT !.cycles = Append(@, cycle)]]
           ELSE /\ updates_since_last_sort' = h.updates_since_last_sort
                /\ trades' = p.trades
                /\ algo' = [algo EXCEPT !.read = @ + 1, !.file = file]
                /\ UNCHANGED <<sorted_tickers, cash, total_pnl>>
        /\ UNCHANGED <<lastCall, batch, opt>>

\* The next tick of the file, when the file is read for the first time
Tick(ticker, price) ==
    /\ algo.pc = "run"
    /\ algo.run = 1
    /\ algo.read < MaxDayTicks
    /\ ticker \notin DOMAIN ticker_map => price \in FirstPrices
    /\ \E gap \in TickGaps : LoopBody(ticker, price, NextTimestamp(now, gap))

\* The end of the file: close_all, the metrics, the dict returned
EndOfDay ==
    LET p == close_all(Ledger, now, ticker_map)
    IN  /\ algo.pc = "run"
        /\ algo.read = Len(algo.file)
        /\ trades' = p.trades
        /\ cash' = p.cash
        /\ total_pnl' = p.total_pnl
        /\ algo' = [algo EXCEPT !.pc = "done", !.ret = DayResult(p)]
        /\ UNCHANGED <<tableVars, now, lastCall, batch, opt>>

NextDayRun ==
    \/ MissingFile
    \/ Construct
    \/ \E ticker \in DayTickers, price \in DayPrices : Tick(ticker, price)
    \/ EndOfDay

SpecDay == InitDayRun /\ [][NextDayRun]_vars

\* run_single_file is called a second time on the same file with the same
\* parameters, in the process that made the first call: what the first call
\* left behind is still there.
RunAgain ==
    /\ algo.pc = "done"
    /\ algo.run = 1
    /\ algo' = [algo EXCEPT !.pc = "called", !.run = 2, !.first = algo.ret]
    /\ UNCHANGED <<tableVars, portfolioVars, now, lastCall, batch, opt>>

\* The next tick of a file that was read before
Replay ==
    /\ algo.pc = "run"
    /\ algo.read < Len(algo.file)
    /\ LET tick == algo.file[algo.read + 1]
       IN  LoopBody(tick[2], tick[3], tick[1])

NextRerun ==
    \/ NextDayRun
    \/ RunAgain
    \/ Replay

\* The parameter maps of the files that are run twice
RerunParamSets ==
    { [BaseParams EXCEPT !.max_trades_per_day = 2, !.trade_interval_minutes = 1],
      [BaseParams EXCEPT !.take_profit_market_pnl = 30] }

InitRerun == InitRun(RerunParamSets)

SpecRerun == InitRerun /\ [][NextRerun]_vars

(***************************************************************************)
(* A day whose ticks are half an hour apart, so that trades are held for   *)
(* an hour within the ticks of the file                                    *)
(***************************************************************************)
MaxHoldTicks == 7       \* ticks read from the file of such a day

HoldGaps == {1800}

\* The parameter map of these days: no escape time and a stagnation timeout
\* of two hours
HoldParamSets ==
    { [BaseParams EXCEPT !.min_escape_time = 0, !.max_pnl_timeout_minutes = 120] }

InitHold == InitRun(HoldParamSets)

\* The next tick of the file, half an hour after the last one
LongTick(ticker, price) ==
    /\ algo.pc = "run"
    /\ algo.read < MaxHoldTicks
    /\ ticker \notin DOMAIN ticker_map => price \in FirstPrices
    /\ \E gap \in HoldGaps : LoopBody(ticker, price, NextTimestamp(now, gap))

NextHold ==
    \/ MissingFile
    \/ Construct
    \/ \E ticker \in DayTickers, price \in DayPrices : LongTick(ticker, price)
    \/ EndOfDay

SpecHold == InitHold /\ [][NextHold]_vars

(***************************************************************************)
(* Such a day with a trade value of 600 000: after one open the cash that *)
(* is left does not pay for a second                                       *)
(***************************************************************************)
CashParamSets ==
    { [BaseParams EXCEPT !.min_escape_time = 0, !.max_pnl_timeout_minutes = 120,
                         !.trade_value_eur = 600000] }

SpecCash == InitRun(CashParamSets) /\ [][NextHold]_vars

(***************************************************************************)
(* A day whose file holds ticks with the price 0                           *)
(***************************************************************************)
\* The next tick of the file is the first tick of its symbol, at the price 0
ZeroTick(ticker) ==
    /\ algo.pc = "run"
    /\ algo.run = 1
    /\ algo.read < MaxDayTicks
    /\ ticker \notin DOMAIN ticker_map
    /\ \E gap \in TickGaps : LoopBody(ticker, 0, NextTimestamp(now, gap))

SpecSkip ==
    InitHold /\ [][NextDayRun \/ \E ticker \in DayTickers : ZeroTick(ticker)]_vars

(***************************************************************************)
(* Claims about the ledger                                                 *)
(***************************************************************************)
SumInvestedOpen(ts) ==
    SumSeq([i \in 1..Len(ts) |-> IF IsOpen(ts[i]) THEN ts[i].invested_amount ELSE 0])

\* C1: in every state reachable by open_trade, close_position, close_all and
\* refresh_prices calls, cash + (sum of invested_amount over the open trades)
\* - total_pnl is the initial cash of 1,000,000.
C1_Conservation ==
    cash + SumInvestedOpen(trades) - total_pnl = InitialCash

\* a trade was closed at a price other than its entry price while another
\* trade is open
C1_Witness ==
    /\ \E i \in 1..Len(trades) : ~ IsOpen(trades[i]) /\ trades[i].realized_pnl # 0
    /\ \E i \in 1..Len(trades) : IsOpen(trades[i])

\* C2: open_trade for a trade whose cost (last price x quantity) exceeds the
\* cash, or whose ticker has no known price, returns False and leaves cash,
\* total_pnl and the trade list as they were.
C2_FailedOpenNoChange ==
    [][ ( /\ lastCall'.op = "open_trade"
          /\ \/ ~ HasPrice(ticker_map, lastCall'.ticker)
             \/ get_last_price(ticker_map, lastCall'.ticker) * lastCall'.n > cash )
        => ( /\ lastCall'.ret = FALSE
             /\ cash' = cash
             /\ total_pnl' = total_pnl
             /\ trades' = trades ) ]_vars

\* an open_trade was refused for lack of funds although the ticker has a price
C2_Witness ==
    /\ lastCall.op = "open_trade"
    /\ lastCall.ret = FALSE
    /\ HasPrice(ticker_map, lastCall.ticker)
    /\ get_last_price(ticker_map, lastCall.ticker) * lastCall.n > cash

\* C3: after close_all no trade is open, and the cash is the cash before the
\* call plus the sum of exit_price x quantity over the trades that were open.
C3_CloseAll ==
    [][ lastCall'.op = "close_all"
        => ( /\ \A i \in 1..Len(trades') : ~ IsOpen(trades'[i])
             /\ Len(trades') = Len(trades)
             /\ cash' = cash + SumSeq([i \in 1..Len(trades) |->
                                         IF IsOpen(trades[i])
                                         THEN trades'[i].exit_price * trades'[i].quantity
                                         ELSE 0]) ) ]_vars

\* close_all has just closed two trades on different tickers
C3_Witness ==
    /\ lastCall.op = "close_all"
    /\ lastCall.n >= 2
    /\ \E i, j \in 1..Len(trades) : trades[i].ticker # trades[j].ticker

\* C4: refresh_prices changes only last_price, unrealized_pnl and
\* unrealized_pnl_max of open trades; cash, total_pnl, the number and status
\* of the trades, every invested_amount and every closed trade are unchanged,
\* hence so is cash + (sum of invested_amount of the open trades).
C4_RefreshFrame ==
    [][ lastCall'.op = "refresh_prices"
        => ( /\ cash' = cash
             /\ total_pnl' = total_pnl
             /\ Len(trades') = Len(trades)
             /\ \A i \in 1..Len(trades) :
                   /\ trades'[i].status = trades[i].status
                   /\ trades'[i].invested_amount = trades[i].invested_amount
                   /\ ~ IsOpen(trades[i]) => trades'[i] = trades[i]
                   /\ IsOpen(trades[i]) =>
                        trades'[i] = [trades[i] EXCEPT
                                        !.last_price = trades'[i].last_price,
                                        !.unrealized_pnl = trades'[i].unrealized_pnl,
                                        !.unrealized_pnl_max = trades'[i].unrealized_pnl_max]
             /\ cash' + SumInvestedOpen(trades') = cash + SumInvestedOpen(trades) ) ]_vars

\* refresh_prices has just re-priced an open trade while a closed trade of a
\* ticker whose price has moved since it was closed is in the ledger
C4_Witness ==
    /\ lastCall.op = "refresh_prices"
    /\ \E i \in 1..Len(trades) : IsOpen(trades[i]) /\ trades[i].unrealized_pnl # 0
    /\ \E i \in 1..Len(trades) :
          /\ ~ IsOpen(trades[i])
          /\ trades[i].last_price # get_last_price(ticker_map, trades[i].ticker)

(***************************************************************************)
(* Claims about MultiFileSimulator.run_all_files                           *)
(***************************************************************************)
\* the list of day results the sequential loop builds, in the order of
\* data_files
SequentialResults(b) ==
    [d \in Days |-> IF b.impl = "src" THEN SimulateSingleFile(b.data_files[d])
                    ELSE RunSingleFile(b.data_files[d])]

\* C9: when run_all_files returns, in parallel mode as in sequential mode, the
\* results it aggregated are the days' results in the order of data_files and
\* the aggregate is the one of that list: total_pnl is the sum of the per-day
\* file_pnl, and total_invested_capital, the day counts and daily_pnl_std (or
\* total_trades, win_rate and drawdown) are those of the sequential run,
\* whatever the order in which the workers finished and the size of the
\* chunks; the parallel mode aggregates only once every chunk has come back.
C9_ParallelSameAggregate ==
    /\ batch.pc = "returned" =>
          /\ batch.results = SequentialResults(batch)
          /\ batch.ret = Aggregate(batch.impl, SequentialResults(batch))
          /\ batch.ret.total_pnl =
                SumSeq([d \in Days |-> SequentialResults(batch)[d].file_pnl])
    /\ (batch.parallel /\ (batch.results # <<>> \/ batch.ret # <<>>)) =>
          /\ AllChunksArrived(batch)
          /\ batch.running = {}

\* a parallel run has returned; the chunks came back out of order, the days
\* have different pnl and one of them is negative
C9_Witness ==
    /\ batch.pc = "returned" /\ batch.parallel /\ batch.workers > 1
    /\ \E i \in 1..Len(batch.arrived) - 1 : batch.arrived[i] > batch.arrived[i + 1]
    /\ batch.results[1].file_pnl # batch.results[2].file_pnl
    /\ \E d \in Days : batch.results[d].file_pnl < 0
    /\ batch.ret.total_pnl # 0

\* C10: a day whose simulation raises never aborts the batch: run_all_files
\* does not raise, and when it has returned the day counts for zero pnl (and
\* zero invested capital) in the aggregate.
C10_OneDayErrorNeverAborts ==
    /\ batch.pc # "raised"
    /\ (batch.pc = "returned" /\ \E d \in Days : RunRaises(batch.data_files[d])) =>
          \A d \in Days : RunRaises(batch.data_files[d]) =>
              batch.results[d].file_pnl = 0

(***************************************************************************)
(* Claims about ParamOptimizer                                             *)
(***************************************************************************)
\* the same parameter names with numerically equal values
NumericallyEqual(c1, c2) ==
    /\ Names(c1) = Names(c2)
    /\ \A name \in Names(c1) : Get(c1, name).v = Get(c2, name).v

\* the same name/value pairs, in whatever order
SamePairs(c1, c2) ==
    {c1[i] : i \in 1..Len(c1)} = {c2[i] : i \in 1..Len(c2)}

\* C5: during a run of run_optimization, run_all_files is not called twice on
\* configurations that give numerically equal values to the same names.
C5_AtMostOncePerNumericConfig ==
    \A i, j \in 1..Len(opt.simulated) :
        i < j => ~ NumericallyEqual(opt.simulated[i], opt.simulated[j])

\* C6: a call of _test_params on a map with the same name/value pairs as an
\* earlier call, in whatever insertion order, is a cache hit that returns the
\* earlier pnl, and no two simulations ran on the same pairs.
C6_KeyIgnoresInsertionOrder ==
    /\ \A i, j \in 1..Len(opt.calls) :
          (i < j /\ SamePairs(opt.calls[i].config, opt.calls[j].config)) =>
              /\ opt.calls[j].hit
              /\ opt.calls[j].pnl = opt.calls[i].pnl
    /\ \A i, j \in 1..Len(opt.simulated) :
          i < j => ~ SamePairs(opt.simulated[i], opt.simulated[j])

\* a simulated configuration was evaluated again with its items in the other
\* order: one simulation, the second call a hit
C6_Witness ==
    /\ Len(opt.calls) = 2
    /\ opt.calls[1].config # opt.calls[2].config
    /\ SamePairs(opt.calls[1].config, opt.calls[2].config)
    /\ ~ opt.calls[1].hit
    /\ opt.calls[2].hit
    /\ Len(opt.simulated) = 1

\* C7: every configuration simulated on a cache miss has a row in results.csv
\* once its evaluation step is over, from which a later run rebuilds its key.
C7_SimulatedConfigsLogged ==
    \A i \in 1..Len(opt.simulated) :
        \E r \in 1..Len(opt.results_file) :
            config_to_key(CsvConfig(opt.results_file[r])) = config_to_key(opt.simulated[i])

\* C8: no step of run_optimization lowers global_best_pnl, and no step of its
\* loop lowers current_best_pnl.
C8_BestPnlNeverDecreases ==
    [][ /\ opt'.global_best_pnl >= opt.global_best_pnl
        /\ opt.pc # "new" => opt'.current_best_pnl >= opt.current_best_pnl ]_vars

\* in the second iteration a parameter step whose best pnl is below the
\* running best has just been decided, after an earlier improvement
C8_Witness ==
    /\ opt.pc = "end_iteration"
    /\ opt.iteration = 2
    /\ opt.param_results # <<>>
    /\ SortDesc(opt.param_results)[1][1] < opt.current_best_pnl
    /\ opt.current_best_pnl > opt.global_best_pnl
    /\ opt.global_best_pnl > NegInf

(***************************************************************************)
(* Claims about run_single_file and AlgoEchappee                           *)
(***************************************************************************)
\* C11: run_single_file on a day file that does not exist returns pnl 0,
\* invested capital 0, 0 distinct tickers traded and, as roi, the value it
\* returns for a day whose invested capital is 0.
C11_MissingFileSentinel ==
    (algo.pc = "done" /\ ~ algo.exists) =>
        algo.ret = [ file_pnl |-> 0, file_invested_capital |-> 0,
                     num_traded |-> 0, roi |-> Roi(0, 0) ]

\* C12: in every state of a day run, the number of trades opened on a date
\* (breakout and periodic together) is at most max_trades_per_day.
C12_DailyCap ==
    (algo.pc \in {"run", "done"} /\ algo.exists) =>
        \A date \in DOMAIN algo.state.trades_today :
            algo.state.trades_today[date] <= algo.state.max_trades_per_day

\* C13: every trade the periodic fallback opens is on the symbol ranked
\* highest among the symbols that have no open position, with quantity
\* floor(trade_value_eur / last_price): it never adds a trade to a symbol
\* that already has an open position.
C13_PeriodicOnUnheldBest ==
    (algo.pc \in {"run", "done"} /\ algo.exists) =>
        \A i \in 1..Len(algo.state.opened) :
            LET o      == algo.state.opened[i]
                unheld(t) == t \notin o.held
                free   == SelectSeq(o.sorted, unheld)
            IN  o.kind = "periodic" =>
                    /\ o.ticker \notin o.held
                    /\ free # <<>> /\ o.ticker = Head(free)

\* C14: whenever the breakout path opens a trade on a symbol at cycle time
\* t, the symbol was above the entry threshold (mean + start_echappee_threshold
\* * std of the top-15 current_pnl) and inside the top N at every strategy
\* cycle of [t - min_escape_time, t].
C14_QualifiedThroughout ==
    (algo.pc \in {"run", "done"} /\ algo.exists) =>
        \A i \in 1..Len(algo.state.opened) :
            LET o == algo.state.opened[i]
            IN  o.kind = "echappee" =>
                \A j \in 1..Len(algo.state.cycles) :
                    LET c      == algo.state.cycles[j]
                        top_15 == get_top_n(c.sorted, TopK)
                        pnls   == [k \in 1..Len(top_15) |-> c.pnl[top_15[k]]]
                    IN  (o.time - algo.state.min_escape_time <= c.time /\ c.time <= o.time) =>
                            /\ \E k \in 1..Len(top_15) :
                                  k <= algo.state.top_n_threshold /\ top_15[k] = o.ticker
                            /\ AboveSeuil(c.pnl[o.ticker], pnls,
                                          algo.state.start_echappee_threshold)

\* The hypotheses of C15 on symbol s at the strategy cycle c: a universe of
\* three symbols, s ranked first, std >= 5, s above mean + start * std and
\* above min_market_pnl, and the trading window, the daily cap and the cash
\* allowing an open on s, which was not traded before.
C15_Qualifies(c, s) ==
    LET a    == algo.state
        pnls == [k \in 1..Len(c.sorted) |-> c.pnl[c.sorted[k]]]
    IN  /\ Len(c.sorted) = 3
        /\ c.sorted[1] = s
        /\ ~ StdBelow(pnls, MinStd)
        /\ AboveSeuil(c.pnl[s], pnls, a.start_echappee_threshold)
        /\ c.pnl[s] > a.min_market_pnl
        /\ parse_time(a.trade_start_hour) <= get_hour(c.time)
        /\ get_hour(c.time) < parse_time(a.trade_cutoff_hour)
        /\ c.count < a.max_trades_per_day
        /\ c.cash >= c.price[s] * (a.trade_value_eur \div c.price[s])
        /\ s \notin c.traded

\* The conclusion of C15 at the cycle c, the latest one: a trade on s opened
\* by the breakout path is open, with quantity floor(trade_value_eur /
\* entry_price) and entry_price the last price of s at the opening cycle.
C15_Opened(c, s) ==
    \E i \in 1..Len(algo.state.opened) :
        LET o == algo.state.opened[i]
            t == trades[o.index]
        IN  /\ o.kind = "echappee" /\ o.ticker = s /\ o.time <= c.time
            /\ t.ticker = s /\ t.status = "open"
            /\ t.entry_time = o.time
            /\ t.entry_price = c.price[s]
            /\ t.quantity = algo.state.trade_value_eur \div t.entry_price

\* C15 (as stated): in a three-symbol universe, if at every strategy cycle
\* of a span of at least min_escape_time a symbol is ranked first, above the
\* entry threshold with std >= 5 and above min_market_pnl, and the window,
\* the daily cap and the cash allow an open and the symbol was not traded
\* before, then by the last of those cycles a trade on it is open with
\* quantity floor(trade_value_eur / entry_price).
C15_Original ==
    (algo.pc = "run" /\ algo.state.cycles # <<>> /\ updates_since_last_sort = 0) =>
        LET cycles == algo.state.cycles
            last   == Len(cycles)
        IN  \A s \in DayTickers : \A j \in 1..last :
                ( /\ cycles[last].time - cycles[j].time >= algo.state.min_escape_time
                  /\ \A m \in j..last : C15_Qualifies(cycles[m], s) )
                => C15_Opened(cycles[last], s)

\* C15 (amended): the same, for a span that holds at least two strategy
\* cycles and a trade value that buys at least one share at the last price
\* of the symbol.
C15_OpensWhenAffordable ==
    (algo.pc = "run" /\ algo.state.cycles # <<>> /\ updates_since_last_sort = 0) =>
        LET cycles == algo.state.cycles
            last   == Len(cycles)
        IN  \A s \in DayTickers : \A j \in 1..last :
                ( /\ cycles[last].time - cycles[j].time >= algo.state.min_escape_time
                  /\ \A m \in j..last : C15_Qualifies(cycles[m], s)
                  /\ j < last
                  /\ algo.state.trade_value_eur \div cycles[last].price[s] >= 1 )
                => C15_Opened(cycles[last], s)

C15_Witness ==
    /\ algo.pc = "run" /\ algo.state.cycles # <<>> /\ updates_since_last_sort = 0
    /\ LET cycles == algo.state.cycles
           last   == Len(cycles)
       IN  \E j \in 1..last :
              /\ j < last
              /\ cycles[last].time - cycles[j].time >= algo.state.min_escape_time
              /\ \A m \in j..last : C15_Qualifies(cycles[m], "A")
              /\ algo.state.trade_value_eur \div cycles[last].price["A"] >= 1
              /\ C15_Opened(cycles[last], "A")

\* C16: if at a strategy cycle a ticker with open trades has current_pnl >=
\* take_profit_market_pnl, all its open trades are closed in that cycle at
\* the ticker's last price; and every closed trade, whichever rule or the
\* end-of-day liquidation closed it, has realized_pnl = (exit_price -
\* entry_price) * quantity.
C16_TakeProfitCloses ==
    [][ /\ ( /\ algo.pc = "run" /\ algo'.pc = "run"
             /\ Len(algo'.state.cycles) = Len(algo.state.cycles) + 1 )
           => \A i \in OpenIdx(trades) :
                 LET e == ticker_map'[trades[i].ticker]
                 IN  e.current_pnl >= algo.state.take_profit_market_pnl
                     => /\ trades'[i].status = "closed"
                        /\ trades'[i].exit_price = e.last_price
                        /\ trades'[i].exit_time = now'
        /\ \A i \in 1..Len(trades') :
              trades'[i].status = "closed"
              => trades'[i].realized_pnl =
                    (trades'[i].exit_price - trades'[i].entry_price) * trades'[i].quantity
      ]_vars

C16_Witness ==
    /\ algo.pc = "run"
    /\ \E i \in 1..Len(trades) :
          /\ trades[i].status = "closed"
          /\ trades[i].exit_time = now
          /\ trades[i].entry_time < now
          /\ trades[i].exit_price = ticker_map[trades[i].ticker].last_price
          /\ ticker_map[trades[i].ticker].current_pnl >= algo.state.take_profit_market_pnl
          /\ trades[i].realized_pnl =
                (trades[i].exit_price - trades[i].entry_price) * trades[i].quantity

\* C17: a trade's status only moves from open to closed, and once a trade
\* is closed none of its fields changes under any later tick,
\* refresh_prices, close_position or close_all.
C17_ClosedIsFinal ==
    [][ /\ Len(trades') >= Len(trades)
        /\ \A i \in 1..Len(trades) :
              /\ trades[i].status = "closed" => trades'[i] = trades[i]
              /\ trades'[i].status \in {"open", "closed"}
      ]_vars

C17_Witness ==
    \E i \in 1..Len(trades) :
        /\ trades[i].status = "closed"
        /\ trades[i].exit_time < now
        /\ lastCall.op \in {"refresh_prices", "close_position", "close_all"}
        /\ ticker_map[trades[i].ticker].last_price # trades[i].last_price

(***************************************************************************)
(* Claims about SortedPnlTable                                             *)
(***************************************************************************)
\* C18: after any sequence of update_ticker calls for a symbol, its
\* current_pnl equals (last_price - first_price) / first_price * 100, which
\* is 0 after the first tick alone.
C18_CurrentPnl ==
    \A t \in DOMAIN ticker_map :
        LET e == ticker_map[t]
        IN  /\ e.current_pnl * e.first_price = (e.last_price - e.first_price) * 100
            /\ e.last_time = e.first_time => e.current_pnl = 0

C18_Witness ==
    \E t \in DOMAIN ticker_map :
        LET e == ticker_map[t]
        IN  /\ e.first_price = 100 /\ e.last_price = 50
            /\ e.current_pnl = -50
            /\ e.global_max_pnl = 100
            /\ e.max_drawdown = -150

\* C19: within one day run a symbol's global_max_pnl never decreases from
\* one update to the next and is always >= max(0, current_pnl);
\* global_max_time and global_max_price change only on an update that
\* strictly raises global_max_pnl.
C19_GlobalMax ==
    [][ \A t \in DOMAIN ticker_map' :
           LET n == ticker_map'[t]
           IN  /\ n.global_max_pnl >= 0
               /\ n.global_max_pnl >= n.current_pnl
               /\ t \in DOMAIN ticker_map =>
                     LET e == ticker_map[t]
                     IN  /\ n.global_max_pnl >= e.global_max_pnl
                         /\ ( \/ n.global_max_time # e.global_max_time
                              \/ n.global_max_price # e.global_max_price )
                            => n.global_max_pnl > e.global_max_pnl
      ]_vars

C19_Witness ==
    \E t \in DOMAIN ticker_map :
        LET e == ticker_map[t]
        IN  /\ lastCall.ticker = t
            /\ e.last_time = now
            /\ e.current_pnl = e.global_max_pnl
            /\ e.global_max_pnl > 0
            /\ e.global_max_time < e.last_time

IterationSteps(o) == Len(param_order) * (o.max_tests_per_param + 2) + 2

\* an upper bound of the steps run_optimization still has to take
StepsLeft(o) ==
    LET later == (o.max_iterations - o.iteration) * IterationSteps(o) + 1
        params(n) == n * (o.max_tests_per_param + 2) + 1
    IN  CASE o.pc = "new"           -> o.max_iterations * IterationSteps(o) + 2
          [] o.pc = "iteration"     -> later + IterationSteps(o)
          [] o.pc = "param"         -> later + params(Len(param_order) - o.p + 1)
          [] o.pc = "test"          -> later + params(Len(param_order) - o.p)
                                             + Len(o.test_values) + 1
          [] o.pc = "end_iteration" -> later + 1
          [] o.pc = "after_loop"    -> 1
          [] o.pc = "done"          -> 0

\* C21: run_optimization terminates: every step strictly decreases a bound
\* of the steps left, which is never negative (so the candidate loop of each
\* parameter step ended, with at most max_tests_per_param values); it begins
\* at most max_iterations outer iterations; and the end of an outer
\* iteration leaves the loop exactly when the running best pnl did not
\* increase during it or it was the last iteration allowed.
C21_Terminates ==
    /\ [](StepsLeft(opt) >= 0 /\ opt.iteration <= opt.max_iterations)
    /\ [][StepsLeft(opt') < StepsLeft(opt)]_vars
    /\ [][opt.pc = "end_iteration" =>
            (opt'.pc = "after_loop") =
                (opt.current_best_pnl <= opt.iteration_start_pnl
                 \/ opt.iteration = opt.max_iterations)]_vars

\* a finished run that stopped on convergence before its last allowed
\* iteration, after testing two values per parameter
C21_Witness ==
    /\ opt.pc = "done"
    /\ opt.iteration = 1
    /\ opt.max_iterations = 2
    /\ opt.max_tests_per_param = 2
    /\ Len(opt.simulated) >= 2

\* C22: the checkpoint is overwritten atomically: wherever the process stops
\* during save_best_config, best_config.json holds the complete previous
\* record or the complete new record {timestamp, pnl, config}, never an
\* empty or partial one.
C22_AtomicCheckpoint ==
    opt.pc = "stopped" =>
        /\ opt.exists = (opt.file # <<>>)
        /\ opt.file \in {opt.old, DumpChunks(opt.data)}

(***************************************************************************)
(* Claims about the exits, the cycles and the result of a day              *)
(***************************************************************************)

\* C23: a strategy cycle closes an open trade only if an exit rule holds
\* for that trade at that cycle: take-profit, trailing stop, stagnation
\* timeout or loss of the breakout status of its ticker, or the maximum
\* holding duration counted from the trade's own entry_time; a trade for
\* which none of the five holds stays open.
C23_ClosedOnlyByOwnRule ==
    [][ ( /\ algo.pc = "run" /\ algo'.pc = "run"
          /\ Len(algo'.state.cycles) = Len(algo.state.cycles) + 1 )
        => \A i \in OpenIdx(trades) :
              LET a == algo.state
                  e == ticker_map'[trades[i].ticker]
                  pnls == Pnls(ticker_map', get_top_n(sorted_tickers', TopK))
              IN  trades'[i].status = "closed"
                  => \/ e.current_pnl >= a.take_profit_market_pnl
                     \/ /\ e.global_max_pnl > 0
                        /\ e.global_max_pnl - e.current_pnl >= a.trail_stop_market_pnl
                     \/ now' - e.global_max_time >= a.max_pnl_timeout_minutes * 60
                     \/ ~ AboveSeuil(e.current_pnl, pnls, - a.stop_echappee_threshold)
                     \/ now' - trades[i].entry_time >= a.max_trade_duration_minutes * 60
      ]_vars

\* C24: a checkpoint written by run_optimization records, next to a
\* configuration, the pnl _test_params returns for that configuration; and
\* after every parameter step the running best configuration and the
\* running best pnl are such a pair, in exploration mode too.
C24_CheckpointMatchesConfig ==
    [][ /\ opt'.best_config_file # opt.best_config_file
           => test_params(opt', opt'.best_config_file.config).pnl
                 = opt'.best_config_file.pnl
        /\ (opt.pc = "test" /\ opt'.pc # "test")
           => test_params(opt', opt'.current_best_config).pnl = opt'.current_best_pnl
      ]_vars

\* C25: an outer iteration runs in exploration mode only if the outer
\* iteration before it produced no improvement; and the search does not
\* stop as converged, with iterations left, after a non-improving iteration
\* that was not an exploration iteration.
C25_ExplorationBeforeConvergence ==
    [][ /\ (opt.pc = "iteration" /\ opt'.force_exploration)
           => opt.current_best_pnl <= opt.iteration_start_pnl
        /\ ( /\ opt.pc = "end_iteration"
             /\ opt'.pc = "after_loop"
             /\ opt.iteration < opt.max_iterations )
           => opt.force_exploration
      ]_vars

\* C26: for every current value, max_tests and step > 0 the list returned
\* by _generate_values_around_current has at most max_tests values outside
\* expand mode, starts with the current value, and holds pairwise distinct
\* values of the form current + k * step, each inside
\* [min_value, max_value].
C26_ValuesAroundCurrent ==
    opt.pc = "returned" =>
        LET values  == opt.values
            current == opt.current_value.v
            step    == opt.settings.step.v
        IN  /\ ~ opt.expand_search => Len(values) <= opt.max_tests
            /\ values[1].v = current
            /\ \A i \in 1..Len(values) :
                  /\ (values[i].v - current) % step = 0
                  /\ values[i].v >= opt.settings.min_value.v
                  /\ values[i].v <= opt.settings.max_value.v
                  /\ \A j \in 1..Len(values) : values[i].v = values[j].v => i = j

\* C27: a tick whose table update raises is skipped as a whole: the entry
\* of its symbol, the update counter and the ledger are as before the tick,
\* and no strategy cycle runs for it.
C27_RaisingTickSkipped ==
    [][ ( /\ algo.pc = "run" /\ algo'.pc = "run"
          /\ algo'.read = algo.read + 1
          /\ LET ticker == algo'.file[algo'.read][2]
             IN  ticker \in DOMAIN ticker_map /\ UpdateRaises(ticker_map[ticker]) )
        => /\ ticker_map' = ticker_map
           /\ updates_since_last_sort' = updates_since_last_sort
           /\ sorted_tickers' = sorted_tickers
           /\ Ledger' = Ledger
           /\ algo'.state = algo.state
      ]_vars


C29_HasBeenResorted ==
    [][ /\ lastCall'.op = "update_ticker" =>
              /\ updates_since_last_sort' = updates_since_last_sort + 1
              /\ sorted_tickers' = sorted_tickers
        /\ lastCall'.op = "has_been_resorted" =>
              /\ lastCall'.ret = (updates_since_last_sort >= lastCall'.n)
              /\ lastCall'.ret =>
                    /\ Len(sorted_tickers') = Cardinality(DOMAIN ticker_map')
                    /\ {sorted_tickers'[i] : i \in 1..Len(sorted_tickers')} = DOMAIN ticker_map'
                    /\ \A i, j \in 1..Len(sorted_tickers') :
                          i < j => ticker_map'[sorted_tickers'[i]].current_pnl
                                     >= ticker_map'[sorted_tickers'[j]].current_pnl
                    /\ updates_since_last_sort' = 0
              /\ ~ lastCall'.ret =>
                    /\ sorted_tickers' = sorted_tickers
                    /\ updates_since_last_sort' = updates_since_last_sort ]_vars

\* has_been_resorted(2) has just returned True and put the symbol that came
\* second into the table in front of the first
C29_Witness ==
    /\ lastCall = Call("has_been_resorted", "", TRUE, 2)
    /\ sorted_tickers = <<"B", "A">>
    /\ ticker_map["B"].first_time > ticker_map["A"].first_time
    /\ ticker_map["B"].current_pnl > ticker_map["A"].current_pnl
    /\ updates_since_last_sort = 0


\* C30: when run_single_file returns for a file that exists, no trade of the
\* ledger is open, and the metrics account for every trade: file_pnl is the
\* sum of (exit_price - entry_price) x quantity, file_invested_capital the sum
\* of quantity x entry_price, and num_traded the number of distinct tickers
\* that have a trade.
C30_DayMetrics ==
    (algo.pc = "done" /\ algo.exists) =>
        /\ \A i \in 1..Len(trades) : trades[i].status = "closed"
        /\ algo.ret.file_pnl =
              SumSeq([i \in 1..Len(trades) |->
                        (trades[i].exit_price - trades[i].entry_price) * trades[i].quantity])
        /\ algo.ret.file_invested_capital =
              SumSeq([i \in 1..Len(trades) |-> trades[i].quantity * trades[i].entry_price])
        /\ algo.ret.num_traded = Cardinality({trades[i].ticker : i \in 1..Len(trades)})

\* a day has returned with a profit or a loss, with more trades than traded
\* symbols, and with a trade that a cycle closed before the end of the file
C30_Witness ==
    /\ algo.pc = "done" /\ algo.exists
    /\ Len(trades) >= 2
    /\ algo.ret.file_pnl # 0
    /\ algo.ret.num_traded < Len(trades)
    /\ \E i \in 1..Len(trades) : trades[i].exit_time < now


(***************************************************************************)
(* Claims about the opening of trades by AlgoEchappee.main                 *)
(***************************************************************************)
\* C31: every trade opened by main, by the breakout path or by the periodic
\* path, has an entry_time whose time of day on the strategy's clock is at or
\* after trade_start_hour and before trade_cutoff_hour; a cycle that runs
\* outside the trading window opens no trade.
C31_OpenedInsideWindow ==
    /\ []((algo.pc \in {"run", "done"} /\ algo.exists) =>
            /\ \A k \in 1..Len(algo.state.opened) :
                  LET o == algo.state.opened[k]
                  IN  /\ o.kind \in {"echappee", "periodic"}
                      /\ parse_time(algo.state.trade_start_hour) <= get_hour(o.time)
                      /\ get_hour(o.time) < parse_time(algo.state.trade_cutoff_hour)
            /\ \A i \in 1..Len(trades) :
                  /\ parse_time(algo.state.trade_start_hour) <= get_hour(trades[i].entry_time)
                  /\ get_hour(trades[i].entry_time) < parse_time(algo.state.trade_cutoff_hour))
    /\ [][ ( /\ algo.pc = "run" /\ algo'.pc = "run"
             /\ Len(algo'.state.cycles) = Len(algo.state.cycles) + 1
             /\ ~ ( /\ parse_time(algo.state.trade_start_hour) <= get_hour(now')
                    /\ get_hour(now') < parse_time(algo.state.trade_cutoff_hour) ) )
           => /\ Len(trades') = Len(trades)
              /\ algo'.state.opened = algo.state.opened ]_vars

\* a cycle has just run at or after the cutoff with a position held, the
\* periodic interval elapsed and the daily cap not reached, after a trade was
\* opened inside the window, and it opened nothing
C31_Witness ==
    /\ algo.pc = "run" /\ algo.state.cycles # <<>>
    /\ LET c == algo.state.cycles[Len(algo.state.cycles)]
       IN  /\ c.time = now
           /\ get_hour(now) >= parse_time(algo.state.trade_cutoff_hour)
           /\ c.held # {}
           /\ c.count < algo.state.max_trades_per_day
           /\ now - algo.state.last_trade_time[1] >= algo.state.trade_interval_minutes * 60
           /\ OpenIdx(trades) # {}
           /\ \A i \in 1..Len(trades) : trades[i].entry_time < now


C33_NoDuplicateRows ==
    /\ [](opt.pc = "log" =>
            \A i, j \in 1..Len(opt.log.rows) :
                (i # j) => opt.log.rows[i].values # opt.log.rows[j].values)
    /\ [][ ( /\ opt.pc = "log"
             /\ Len(opt'.calls) = Len(opt.calls) + 1
             /\ opt'.calls[Len(opt'.calls)].hit )
           => opt'.log = opt.log ]_vars


\* C34: storing results and reloading the log is a round trip: after a
\* reload the cache maps the canonical key of every configuration that was
\* stored into the log, whatever the key order of the maps stored, to the pnl
\* stored for it.
C34_StoreReloadRoundTrip ==
    (opt.pc = "log" /\ opt.reloaded) =>
        \A k \in 1..Len(opt.calls) :
            ~ opt.calls[k].hit =>
                /\ config_to_key(opt.calls[k].config) \in DOMAIN opt.config_cache
                /\ opt.config_cache[config_to_key(opt.calls[k].config)] = opt.calls[k].pnl


(***************************************************************************)
(* Claims about the drawdown figures                                       *)
(***************************************************************************)
\* C35: for the per-day pnls in file order, with the cumulative sums
\* E_1..E_n, _compute_drawdown returns the largest E_i - E_j over i <= j; it
\* returns 0 for the empty list and never a negative number.  Stated for the
\* list run_all_files aggregates and for every prefix of it.
C35_DrawdownIsMaxDrop ==
    (batch.pc = "returned" /\ batch.impl = "src") =>
        LET daily == [i \in 1..Len(batch.results) |-> batch.results[i].file_pnl]
            E(i)  == SumSeq(SubSeq(daily, 1, i))
            MaxDrop(n) == IF n = 0 THEN 0
                          ELSE CHOOSE d \in {E(p[1]) - E(p[2]) :
                                               p \in {q \in (1..n) \X (1..n) : q[1] <= q[2]}} :
                                  \A i \in 1..n : \A j \in i..n : d >= E(i) - E(j)
        IN  /\ batch.ret.drawdown = MaxDrop(Len(daily))
            /\ batch.ret.drawdown >= 0
            /\ \A n \in 0..Len(daily) :
                  /\ compute_drawdown(SubSeq(daily, 1, n)) = MaxDrop(n)
                  /\ compute_drawdown(SubSeq(daily, 1, n)) >= 0
            /\ compute_drawdown(<<>>) = 0

\* a batch has returned whose first day lost money, whose equity then rose
\* and fell again, and whose drawdown is larger than the loss of any one day
C35_Witness ==
    /\ batch.pc = "returned" /\ batch.impl = "src"
    /\ batch.results[1].file_pnl < 0
    /\ batch.results[2].file_pnl > 0
    /\ batch.results[3].file_pnl < 0
    /\ batch.results[4].file_pnl < 0
    /\ batch.ret.drawdown = 10


\* C36: the max_drawdown of a symbol is 0 when the symbol enters the table
\* and after every update the smaller of its value before and of (current_pnl
\* - highest pnl seen so far, the highest starting at 0), which makes it the
\* minimum of that difference over all updates; it is never positive; the
\* recorded peak and trough satisfy trough_pnl - peak_pnl = max_drawdown and
\* peak_time <= trough_time.
C36_MaxDrawdown ==
    /\ [](\A t \in DOMAIN ticker_map :
            LET e == ticker_map[t]
            IN  /\ e.max_drawdown <= 0
                /\ e.trough_pnl - e.peak_pnl = e.max_drawdown
                /\ e.peak_time <= e.trough_time)
    /\ [][ \A t \in DOMAIN ticker_map' :
             IF t \notin DOMAIN ticker_map
             THEN ticker_map'[t].max_drawdown = 0
             ELSE LET e    == ticker_map[t]
                      f    == ticker_map'[t]
                      high == Max(Max(0, e.global_max_pnl), f.current_pnl)
                  IN  IF lastCall'.op = "update_ticker" /\ lastCall'.ticker = t
                      THEN f.max_drawdown =
                              (IF f.current_pnl - high < e.max_drawdown
                               THEN f.current_pnl - high ELSE e.max_drawdown)
                      ELSE f.max_drawdown = e.max_drawdown ]_vars

\* a symbol rose, fell to its lowest drawdown and recovered part of it: the
\* drawdown of the latest update is negative and above the recorded one
C36_Witness ==
    \E t \in DOMAIN ticker_map :
        LET e == ticker_map[t]
        IN  /\ e.max_drawdown < e.current_pnl - e.highest_pnl_so_far
            /\ e.current_pnl - e.highest_pnl_so_far < 0
            /\ e.peak_pnl > 0
            /\ e.peak_time < e.trough_time
            /\ e.trough_time < e.last_time


\* C37: a trade opened by the breakout path is the first trade of the day
\* run on its symbol, by either path, and its symbol holds no open position
\* at that moment; every symbol that was traded is in traded_tickers from
\* then on, so a symbol that was closed and qualifies anew is not opened by
\* the breakout path again.
C37_BreakoutOncePerSymbol ==
    (algo.pc \in {"run", "done"} /\ algo.exists) =>
        LET opened == algo.state.opened
        IN  /\ \A k \in 1..Len(opened) :
                  /\ opened[k].ticker \in algo.state.traded_tickers
                  /\ trades[opened[k].index].ticker = opened[k].ticker
                  /\ opened[k].kind = "echappee" =>
                        /\ opened[k].ticker \notin opened[k].held
                        /\ \A j \in 1..(k - 1) : opened[j].ticker # opened[k].ticker
            /\ Len(opened) = Len(trades)

\* a cycle has just run in which a symbol that was traded and closed before
\* is ranked first, above the entry threshold with std >= 5 and above
\* min_market_pnl, with both its timers older than min_escape_time, inside
\* the window and under the daily cap, and the symbol has no open trade
C37_Witness ==
    /\ algo.pc = "run" /\ algo.state.cycles # <<>>
    /\ LET a    == algo.state
           c    == a.cycles[Len(a.cycles)]
           pnls == [k \in 1..Len(c.sorted) |-> c.pnl[c.sorted[k]]]
       IN  /\ c.time = now
           /\ \E s \in c.traded :
                 /\ s \notin c.held
                 /\ Len(c.sorted) = 3 /\ c.sorted[1] = s
                 /\ Dev(pnls) >= MinStd * MinStd * 9
                 /\ AboveSeuil(c.pnl[s], pnls, a.start_echappee_threshold)
                 /\ c.pnl[s] > a.min_market_pnl
                 /\ parse_time(a.trade_start_hour) <= get_hour(now)
                 /\ get_hour(now) < parse_time(a.trade_cutoff_hour)
                 /\ c.count < a.max_trades_per_day
                 /\ s \in DOMAIN a.escape_start_times
                 /\ a.escape_start_times[s] < now
                 /\ now - a.escape_start_times[s] >= a.min_escape_time
                 /\ s \in DOMAIN a.top_n_start_times
                 /\ now - a.top_n_start_times[s] >= a.min_escape_time
                 /\ \A i \in 1..Len(trades) : trades[i].ticker = s => trades[i].status = "closed"


(***************************************************************************)
(* Claims about the cache of the optimizer during a search run             *)
(***************************************************************************)
\* C38: in every step of a search run the cache only grows: the keys it held
\* are still there with the pnl they had, and a key is added only by a call
\* that missed the cache and ran the simulation, with the pnl of that
\* simulation
C38_CacheOnlyGrows ==
    [][LET old == opt.config_cache
           new == opt'.config_cache
           added == DOMAIN new \ DOMAIN old
           runs == (Len(opt.simulated) + 1)..Len(opt'.simulated)
       IN  /\ DOMAIN old \subseteq DOMAIN new
           /\ \A k \in DOMAIN old : new[k] = old[k]
           /\ Len(opt'.simulated) >= Len(opt.simulated)
           /\ Cardinality(added) = Cardinality(runs)
           /\ \A i \in runs :
                 /\ config_to_key(opt'.simulated[i]) \in added
                 /\ new[config_to_key(opt'.simulated[i])]
                        = run_all_files(opt.objective, opt'.simulated[i])]_vars

\* a run that started on a results file of one row whose pnl is not the one
\* the simulation would give, asked for that configuration again, and added
\* two entries of its own
C38_Witness ==
    /\ opt.pc \in {"test", "end_iteration", "after_loop", "done"}
    /\ Len(opt.results_file) >= 1
    /\ LET config == CsvConfig(opt.results_file[1])
           key == config_to_key(config)
       IN  /\ key \in DOMAIN opt.config_cache
           /\ opt.config_cache[key] = opt.results_file[1].pnl
           /\ opt.config_cache[key] # run_all_files(opt.objective, config)
           /\ Cardinality({i \in 1..Len(opt.all_results) :
                   config_to_key(opt.all_results[i][2]) = key}) >= 2
    /\ Len(opt.simulated) >= 2
    /\ Cardinality(DOMAIN opt.config_cache) = Len(opt.simulated) + 1


(***************************************************************************)
(* Claims about the cash of the ledger during a day run                    *)
(***************************************************************************)
\* C39: in every reachable state of a day run on ticks with strictly
\* positive prices the cash of the ledger is not negative, and it is what
\* the opens took from the initial cash and the closes gave back
C39_CashNeverNegative ==
    /\ cash >= 0
    /\ \A i \in 1..Len(trades) : trades[i].quantity > 0 /\ trades[i].entry_price > 0
    /\ \A t \in DOMAIN ticker_map : ticker_map[t].last_price > 0
    /\ cash = InitialCash
              - SumSeq([i \in 1..Len(trades) |->
                            trades[i].entry_price * trades[i].quantity])
              + SumSeq([i \in 1..Len(trades) |->
                            IF trades[i].status = "closed"
                            THEN trades[i].exit_price * trades[i].quantity ELSE 0])

\* a cycle of a run in which the periodic opening was due on a held symbol,
\* inside the window and under the daily cap, with a quantity of at least one
\* share, and opened nothing because the order costs more than the cash left
C39_Witness ==
    /\ algo.pc = "run" /\ algo.exists
    /\ algo.state.cycles # <<>>
    /\ algo.state.cycles[Len(algo.state.cycles)].time = now
    /\ \A k \in 1..Len(algo.state.opened) : algo.state.opened[k].time < now
    /\ algo.state.opened # <<>>
    /\ PeriodicDue(algo.state, now)
    /\ LET best == get_open_trade_best_pnl(trades, resort(ticker_map))
       IN  /\ best # <<>>
           /\ Quantity(algo.state, ticker_map[best[1]].last_price) > 0
           /\ ticker_map[best[1]].last_price
                 * Quantity(algo.state, ticker_map[best[1]].last_price) > cash
    /\ cash > 0

====
